---- MODULE Spec2Model ----
(***************************************************************************)
(* Tunnel Fight: the combat resolution engine (src/src/combat.rs), the     *)
(* zone / actor / dice model (src/src/types.rs) and the rule-program       *)
(* interpreter (src/src/apl.rs), as a state machine.                       *)
(*                                                                         *)
(* One battle is one CombatSimulator.  The random source handed to the     *)
(* simulator is modelled by nondeterministic choice: every value an action *)
(* takes from it is chosen with \E and appended to the history variable    *)
(* rng_draws.  Text (dice expressions, rule-program strings) is handled as *)
(* sequences of one-character strings, see Chars.                          *)
(*                                                                         *)
(* Spec is one battle.  SpecTwice is a battle and then, from the same      *)
(* encounter, a second one whose random source gives the same values again *)
(* (a simulation request repeated with the same seed).                     *)
(***************************************************************************)
EXTENDS Integers, Sequences, FiniteSets, TLC

\* Option<T>: None is the empty sequence, Some(x) the one-element sequence.
NoneV == <<>>

Some(x) == <<x>>

IsSome(o) == o # <<>>

Unwrap(o) == o[1]

\* ---------------------------------------------------------------- bounds

\* Largest round cap a battle is started with (the caller's max_rounds).
MaxRounds == 2

\* Number of faces of the d20 that the random source is let to produce; the
\* faces are spread evenly over 1..AttackDie and always include 1 and 20.
RollSamples == 2

\* Round cap of the battles that are fought twice (SpecTwice).
TwiceRounds == 1

\* ---------------------------------------------------------------- helpers

Abs(n) == IF n < 0 THEN -n ELSE n

Max(a, b) == IF a >= b THEN a ELSE b

Range(s) == {s[i] : i \in DOMAIN s}

RECURSIVE SumSeq(_)
SumSeq(s) == IF s = <<>> THEN 0 ELSE Head(s) + SumSeq(Tail(s))

\* ---------------------------------------------------------------- types.rs: Side, Zone, WeaponRange

Sides == {"Side1", "Side2"}

opposite(side) == IF side = "Side1" THEN "Side2" ELSE "Side1"

\* The fixed track, in index order (types.rs, the `zones` arrays).
Zones == <<"Side1Ranged", "Side1Reach", "Side1Melee",
           "Side2Melee", "Side2Reach", "Side2Ranged">>

ZoneSet == Range(Zones)

\* zones.iter().position(|z| z == zone), 0-based as in the source.
PositionOf == [zone \in ZoneSet |-> (CHOOSE i \in DOMAIN Zones : Zones[i] = zone) - 1]

position(zone) == PositionOf[zone]

zone_side(zone) == IF position(zone) < 3 THEN "Side1" ELSE "Side2"

\* distance_to without unsigned_abs.
distance_to_signed(self, other) == position(self) - position(other)

distance_to(self, other) == Abs(position(self) - position(other))

\* toward taking two steps where the target is that far.
toward_striding(self, target) ==
    IF self = target THEN NoneV
    ELSE IF position(target) > position(self)
         THEN Some(Zones[(position(self) + (IF position(target) - position(self) >= 2 THEN 2 ELSE 1)) + 1])
         ELSE Some(Zones[(position(self) - (IF position(self) - position(target) >= 2 THEN 2 ELSE 1)) + 1])

toward(self, target) ==
    IF self = target THEN NoneV
    ELSE IF position(target) > position(self)
         THEN Some(Zones[(position(self) + 1) + 1])
         ELSE Some(Zones[(position(self) - 1) + 1])

WeaponRanges == {"Melee", "Reach", "Ranged"}

\* max_distance with the arms of Melee and Reach exchanged.
max_distance_exchanged(range) ==
    CASE range = "Melee" -> 2
      [] range = "Reach" -> 1
      [] range = "Ranged" -> 6

max_distance(range) ==
    CASE range = "Melee" -> 1
      [] range = "Reach" -> 2
      [] range = "Ranged" -> 6

\* ---------------------------------------------------------------- text

\* A Rust string, as the sequence of its characters.
Chars(s) == [i \in 1..Len(s) |-> SubSeq(s, i, i)]

UpperLetters == Chars("ABCDEFGHIJKLMNOPQRSTUVWXYZ")

LowerLetters == Chars("abcdefghijklmnopqrstuvwxyz")

DigitChars == Chars("0123456789")

LowerOf == [c \in Range(UpperLetters) |->
               LowerLetters[CHOOSE i \in DOMAIN UpperLetters : UpperLetters[i] = c]]

lower_char(c) == IF c \in DOMAIN LowerOf THEN LowerOf[c] ELSE c

\* str::to_lowercase
to_lowercase(cs) == [i \in DOMAIN cs |-> lower_char(cs[i])]

IsSpace(c) == c \in {" ", "\t", "\n", "\r"}

\* str::trim
trim(cs) ==
    IF \A i \in DOMAIN cs : IsSpace(cs[i]) THEN <<>>
    ELSE LET first == CHOOSE i \in DOMAIN cs :
                          ~IsSpace(cs[i]) /\ \A j \in 1..(i - 1) : IsSpace(cs[j])
             last  == CHOOSE i \in DOMAIN cs :
                          ~IsSpace(cs[i]) /\ \A j \in (i + 1)..Len(cs) : IsSpace(cs[j])
         IN SubSeq(cs, first, last)

\* str::find / str::rfind of one character: a 1-based index, or 0 for none.
find(cs, c) ==
    IF \E i \in DOMAIN cs : cs[i] = c
    THEN CHOOSE i \in DOMAIN cs : cs[i] = c /\ \A j \in 1..(i - 1) : cs[j] # c
    ELSE 0

rfind(cs, c) ==
    IF \E i \in DOMAIN cs : cs[i] = c
    THEN CHOOSE i \in DOMAIN cs : cs[i] = c /\ \A j \in (i + 1)..Len(cs) : cs[j] # c
    ELSE 0

\* str::split on one character: the pieces, in order.
RECURSIVE split(_, _)
split(cs, c) ==
    LET i == find(cs, c)
    IN IF i = 0 THEN <<cs>>
       ELSE <<SubSeq(cs, 1, i - 1)>> \o split(SubSeq(cs, i + 1, Len(cs)), c)

ValueOf == [c \in Range(DigitChars) |->
               (CHOOSE i \in DOMAIN DigitChars : DigitChars[i] = c) - 1]

IsDigit(c) == c \in DOMAIN ValueOf

DigitValue(c) == ValueOf[c]

RECURSIVE DigitsValue(_)
DigitsValue(cs) ==
    IF cs = <<>> THEN 0
    ELSE DigitsValue(SubSeq(cs, 1, Len(cs) - 1)) * 10 + DigitValue(cs[Len(cs)])

AllDigits(cs) == cs # <<>> /\ \A i \in DOMAIN cs : IsDigit(cs[i])

\* The digits of u32::MAX, i32::MAX and -(i32::MIN).
U32MaxDigits == Chars("4294967295")

I32MaxDigits == Chars("2147483647")

I32MinDigits == Chars("2147483648")

RECURSIVE StripZeros(_)
StripZeros(ds) == IF Len(ds) > 1 /\ ds[1] = "0" THEN StripZeros(Tail(ds)) ELSE ds

\* a <= b for two digit strings of the same length.
RECURSIVE DigitsLeq(_, _)
DigitsLeq(a, b) ==
    IF a = <<>> THEN TRUE
    ELSE IF DigitValue(a[1]) < DigitValue(b[1]) THEN TRUE
    ELSE IF DigitValue(a[1]) > DigitValue(b[1]) THEN FALSE
    ELSE DigitsLeq(Tail(a), Tail(b))

\* The number written ds is at most the number written limit (no overflow).
Fits(ds, limit) ==
    LET d == StripZeros(ds)
    IN Len(d) < Len(limit) \/ (Len(d) = Len(limit) /\ DigitsLeq(d, limit))

\* str::parse::<u32>: an optional '+', then decimal digits, at most u32::MAX.
\* The result is [ok |-> TRUE, val |-> n] or [ok |-> FALSE].
parse_u32(cs) ==
    LET body == IF cs # <<>> /\ cs[1] = "+" THEN Tail(cs) ELSE cs
    IN IF AllDigits(body) /\ Fits(body, U32MaxDigits)
       THEN [ok |-> TRUE, val |-> DigitsValue(body)]
       ELSE [ok |-> FALSE]

\* str::parse::<i32>: an optional '+' or '-', then decimal digits, within i32.
parse_i32(cs) ==
    LET neg  == cs # <<>> /\ cs[1] = "-"
        body == IF cs # <<>> /\ cs[1] \in {"+", "-"} THEN Tail(cs) ELSE cs
    IN IF AllDigits(body) /\ Fits(body, IF neg THEN I32MinDigits ELSE I32MaxDigits)
       THEN [ok |-> TRUE, val |-> IF neg THEN -DigitsValue(body) ELSE DigitsValue(body)]
       ELSE [ok |-> FALSE]

\* ---------------------------------------------------------------- types.rs: DamageDice

Dice(count, sides, modifier) == [count |-> count, sides |-> sides, modifier |-> modifier]

\* parse_damage_dice(s): [ok |-> TRUE, dice |-> DamageDice] or [ok |-> FALSE]
\* (any Err).  Lowered: s after trim().to_lowercase(); Cut: the split at the
\* '+' or the last '-'; Parts: dice_part.split('d'); Built: the Ok value.
parse_damage_dice(text) ==
    LET Built(count, sides, modifier) ==
            IF count.ok /\ sides.ok /\ modifier.ok
            THEN [ok |-> TRUE, dice |-> Dice(count.val, sides.val, modifier.val)]
            ELSE [ok |-> FALSE]
        Parts(parts, modifier) ==
            IF Len(parts) # 2 THEN [ok |-> FALSE]
            ELSE Built(parse_u32(parts[1]), parse_u32(parts[2]), modifier)
        Cut(s, plus, minus) ==
            Parts(split(IF plus # 0 THEN SubSeq(s, 1, plus - 1)
                        ELSE IF minus # 0 THEN SubSeq(s, 1, minus - 1)
                        ELSE s,
                        "d"),
                  IF plus # 0 THEN parse_i32(SubSeq(s, plus + 1, Len(s)))
                  ELSE IF minus # 0
                       THEN IF minus = 1 THEN [ok |-> FALSE]
                            ELSE parse_i32(SubSeq(s, minus, Len(s)))
                       ELSE [ok |-> TRUE, val |-> 0])
        Lowered(s) == Cut(s, find(s, "+"), rfind(s, "-"))
    IN Lowered(to_lowercase(trim(text)))

\* What rng.gen_range(1..=sides) can give, once per die: the sets of faces a
\* roll of `dice` can draw.  Empty when a die has no face (sides = 0 with
\* count >= 1): gen_range panics on the empty range 1..=0.
DiceFaces(dice) == [1..dice.count -> 1..dice.sides]

\* DamageDice::roll without its floor at 0.
roll_unfloored(dice, faces) == dice.modifier + SumSeq(faces)

\* DamageDice::roll, given the faces drawn.
roll(dice, faces) == Max(dice.modifier + SumSeq(faces), 0)

\* ---------------------------------------------------------------- types.rs: Actor

\* is_alive counting an actor at 0 hit points among the living.
is_alive_at_zero(a) == a.current_hp >= 0

is_alive(a) == a.current_hp > 0

can_attack(a, target) == distance_to(a.zone, target.zone) <= max_distance(a.range)

\* The roster is a function from actor id (0-based, as in the source) to the
\* Actor; its ids in roster order:
ActorIds(actors) == [i \in 1..Cardinality(DOMAIN actors) |-> i - 1]

\* Iterator::min_by_key over ids, keys[k] being the key of ids[k]: the first
\* id of least key, or None.
MinByKey(ids, keys) ==
    IF ids = <<>> THEN NoneV
    ELSE LET i == CHOOSE i \in DOMAIN ids :
                      /\ \A j \in DOMAIN ids : keys[i] <= keys[j]
                      /\ \A j \in 1..(i - 1) : keys[j] > keys[i]
         IN Some(ids[i])

\* ---------------------------------------------------------------- apl.rs: AplContext

\* enemies with the fallen among them.
enemies_fallen_too(actor, actors) ==
    SelectSeq(ActorIds(actors), LAMBDA i : actors[i].side # actor.side)

enemies(actor, actors) ==
    SelectSeq(ActorIds(actors),
              LAMBDA i : actors[i].side # actor.side /\ is_alive(actors[i]))

allies(actor, actors) ==
    SelectSeq(ActorIds(actors),
              LAMBDA i : /\ actors[i].side = actor.side
                         /\ is_alive(actors[i])
                         /\ actors[i].id # actor.id)

nearest_enemy(actor, actors) ==
    LET Nearest(es) ==
            MinByKey(es, [k \in DOMAIN es |-> distance_to(actor.zone, actors[es[k]].zone)])
    IN Nearest(enemies(actor, actors))

lowest_hp_enemy(actor, actors) ==
    LET Lowest(es) == MinByKey(es, [k \in DOMAIN es |-> actors[es[k]].current_hp])
    IN Lowest(enemies(actor, actors))

\* random_enemy, given the value v that rng.gen_range(0..enemies.len()) gave.
random_enemy(actor, actors, v) ==
    LET es == enemies(actor, actors)
    IN IF es = <<>> THEN NoneV ELSE Some(es[v + 1])

enemies_in_range(actor, actors) ==
    SelectSeq(enemies(actor, actors),
              LAMBDA e : distance_to(actor.zone, actors[e].zone)
                             <= max_distance(actor.range))

has_enemy_in_range(actor, actors) == enemies_in_range(actor, actors) # <<>>

\* ---------------------------------------------------------------- apl.rs: the vocabulary

\* The words the interpreter matches, after trimming and lowercasing.
Words ==
    [nearest        |-> {Chars("nearest_enemy"), Chars("nearest")},
     lowest_hp      |-> {Chars("lowest_hp_enemy"), Chars("lowest_hp"), Chars("weakest")},
     random         |-> {Chars("random_enemy"), Chars("random")},
     forward        |-> {Chars("forward")},
     backward       |-> {Chars("backward")},
     attack         |-> {Chars("attack")},
     move           |-> {Chars("move")},
     true           |-> {Chars("true"), <<>>},
     false          |-> {Chars("false")},
     in_range       |-> {Chars("enemy.in_range"), Chars("enemy_in_range")},
     not_in_range   |-> {Chars("!enemy.in_range"), Chars("!enemy_in_range"),
                         Chars("not enemy.in_range")},
     health_percent |-> {Chars("self.health_percent"), Chars("self.hp_percent")},
     health         |-> {Chars("self.hp"), Chars("self.health")},
     enemy_count    |-> {Chars("enemy.count")},
     ally_count     |-> {Chars("ally.count")}]

\* ---------------------------------------------------------------- apl.rs: conditions

\* str::parse::<f64>, for the decimal forms [+|-]digits[.digits]: the value
\* as the fraction num / den.  (Exponents, "inf" and "nan" are not modelled.)
parse_f64(cs) ==
    LET Value(neg, whole, frac) ==
            IF AllDigits(whole \o frac)
            THEN [ok |-> TRUE,
                  num |-> (IF neg THEN -1 ELSE 1) * DigitsValue(whole \o frac),
                  den |-> 10 ^ Len(frac)]
            ELSE [ok |-> FALSE]
        Dotted(neg, body, dot) ==
            Value(neg,
                  IF dot = 0 THEN body ELSE SubSeq(body, 1, dot - 1),
                  IF dot = 0 THEN <<>> ELSE SubSeq(body, dot + 1, Len(body)))
        Signed(neg, body) == Dotted(neg, body, find(body, "."))
    IN Signed(cs # <<>> /\ cs[1] = "-",
              IF cs # <<>> /\ cs[1] \in {"+", "-"} THEN Tail(cs) ELSE cs)

\* evaluate_numeric: Some(fraction [num, den]) or None.
evaluate_numeric(expr, actor, actors) ==
    CASE expr \in Words.health_percent ->
             Some([num |-> actor.current_hp * 100, den |-> actor.max_hp])
      [] expr \in Words.health ->
             Some([num |-> actor.current_hp, den |-> 1])
      [] expr \in Words.enemy_count ->
             Some([num |-> Len(enemies(actor, actors)), den |-> 1])
      [] expr \in Words.ally_count ->
             Some([num |-> Len(allies(actor, actors)), den |-> 1])
      [] OTHER -> NoneV

\* a < b for fractions with positive denominators.
FracLess(a, b) == a.num * b.den < b.num * a.den

\* compare_condition taking 1 for a right-hand side that is not a number.
compare_condition_rhs_one(cond, op, actor, actors) ==
    LET Rhs(r) == IF r.ok THEN [num |-> r.num, den |-> r.den]
                  ELSE [num |-> 1, den |-> 1]
        Compared(lhs_val, rhs) ==
            IF ~IsSome(lhs_val) THEN NoneV
            ELSE IF op = "<" THEN Some(FracLess(Unwrap(lhs_val), rhs))
            ELSE Some(FracLess(rhs, Unwrap(lhs_val)))
        Parts(parts) ==
            IF Len(parts) # 2 THEN NoneV
            ELSE Compared(evaluate_numeric(trim(parts[1]), actor, actors),
                          Rhs(parse_f64(trim(parts[2]))))
    IN Parts(split(cond, op))

\* One comparison `lhs op rhs` of evaluate_condition; op is "<" or ">".
\* Some(result), or None when the condition falls through to the default.
compare_condition(cond, op, actor, actors) ==
    LET Rhs(r) == IF r.ok THEN [num |-> r.num, den |-> r.den]
                  ELSE [num |-> 0, den |-> 1]
        Compared(lhs_val, rhs) ==
            IF ~IsSome(lhs_val) THEN NoneV
            ELSE IF op = "<" THEN Some(FracLess(Unwrap(lhs_val), rhs))
            ELSE Some(FracLess(rhs, Unwrap(lhs_val)))
        Parts(parts) ==
            IF Len(parts) # 2 THEN NoneV
            ELSE Compared(evaluate_numeric(trim(parts[1]), actor, actors),
                          Rhs(parse_f64(trim(parts[2]))))
    IN Parts(split(cond, op))

evaluate_condition(condition, actor, actors) ==
    LET Decided(r) == IF IsSome(r) THEN Unwrap(r) ELSE TRUE
        Holds(cond) ==
            CASE cond \in Words.true -> TRUE
              [] cond \in Words.false -> FALSE
              [] cond \in Words.in_range -> has_enemy_in_range(actor, actors)
              [] cond \in Words.not_in_range -> ~has_enemy_in_range(actor, actors)
              [] OTHER ->
                     IF find(cond, "<") = 0 /\ find(cond, ">") = 0 THEN TRUE
                     ELSE Decided(compare_condition(
                              cond, IF find(cond, "<") # 0 THEN "<" ELSE ">",
                              actor, actors))
    IN Holds(to_lowercase(trim(Chars(condition))))

\* ---------------------------------------------------------------- apl.rs: execute_apl

AplEntry(action, condition, target) ==
    [action |-> action, condition |-> condition, target |-> target]

\* MoveDirection
Toward(target_id) == [kind |-> "Toward", target_id |-> target_id]

ToZone(zone) == [kind |-> "ToZone", zone |-> zone]

Forward == [kind |-> "Forward"]

Backward == [kind |-> "Backward"]

\* default_apl moving toward the weakest enemy.
default_apl_toward_weakest ==
    << AplEntry("attack", Some("enemy.in_range"), Some("nearest_enemy")),
       AplEntry("move", NoneV, Some("weakest")) >>

default_apl ==
    << AplEntry("attack", Some("enemy.in_range"), Some("nearest_enemy")),
       AplEntry("move", NoneV, Some("nearest_enemy")) >>

\* The k-th value of the draws rs is there and is one rng.gen_range(0..n) can give.
DrawOk(rs, k, n) == k <= Len(rs) /\ rs[k] \in 0..(n - 1)

\* resolve_target, reading its random pick (if it makes one) from rs[k].
\* [target |-> Option<id>, used |-> draws taken, ok |-> the draw was there]
resolve_target(target_str, actor, actors, rs, k) ==
    LET Picked(es) ==
            IF es = <<>> THEN [target |-> NoneV, used |-> 0, ok |-> TRUE]
            ELSE IF DrawOk(rs, k, Len(es))
                 THEN [target |-> random_enemy(actor, actors, rs[k]),
                       used |-> 1, ok |-> TRUE]
                 ELSE [target |-> NoneV, used |-> 0, ok |-> FALSE]
        Named(t) ==
            CASE t \in Words.nearest ->
                     [target |-> nearest_enemy(actor, actors), used |-> 0, ok |-> TRUE]
              [] t \in Words.lowest_hp ->
                     [target |-> lowest_hp_enemy(actor, actors), used |-> 0, ok |-> TRUE]
              [] t \in Words.random -> Picked(enemies(actor, actors))
              [] OTHER ->
                     [target |-> nearest_enemy(actor, actors), used |-> 0, ok |-> TRUE]
    IN Named(to_lowercase(trim(target_str)))

\* entry.target.as_deref().unwrap_or("nearest_enemy")
target_or_default(entry) ==
    IF IsSome(entry.target) THEN Unwrap(entry.target) ELSE "nearest_enemy"

\* The "attack" arm letting an entry replace the attack already found.
apl_attack_overriding(entry, st, actor, actors, rs) ==
    LET Chosen(t, in_range) ==
            CASE t \in Words.lowest_hp ->
                     [st EXCEPT !.attack_action =
                          MinByKey(in_range, [k \in DOMAIN in_range |->
                                                  actors[in_range[k]].current_hp])]
              [] t \in Words.random ->
                     IF DrawOk(rs, st.used + 1, Len(in_range))
                     THEN [st EXCEPT !.attack_action = Some(in_range[rs[st.used + 1] + 1]),
                                     !.used = st.used + 1]
                     ELSE [st EXCEPT !.ok = FALSE]
              [] OTHER ->
                     [st EXCEPT !.attack_action = Some(in_range[1])]
    IN IF ~has_enemy_in_range(actor, actors) THEN st
       ELSE Chosen(to_lowercase(Chars(target_or_default(entry))),
                   enemies_in_range(actor, actors))

\* The "attack" arm of execute_apl's match, on the scan state st.
apl_attack(entry, st, actor, actors, rs) ==
    LET Chosen(t, in_range) ==
            CASE t \in Words.lowest_hp ->
                     [st EXCEPT !.attack_action =
                          MinByKey(in_range, [k \in DOMAIN in_range |->
                                                  actors[in_range[k]].current_hp])]
              [] t \in Words.random ->
                     IF DrawOk(rs, st.used + 1, Len(in_range))
                     THEN [st EXCEPT !.attack_action = Some(in_range[rs[st.used + 1] + 1]),
                                     !.used = st.used + 1]
                     ELSE [st EXCEPT !.ok = FALSE]
              [] OTHER ->
                     [st EXCEPT !.attack_action = Some(in_range[1])]
    IN IF IsSome(st.attack_action) \/ ~has_enemy_in_range(actor, actors) THEN st
       ELSE Chosen(to_lowercase(Chars(target_or_default(entry))),
                   enemies_in_range(actor, actors))

\* The "move" arm of execute_apl's match.
apl_move(entry, st, actor, actors, rs) ==
    LET Resolved(r) ==
            IF ~r.ok THEN [st EXCEPT !.ok = FALSE]
            ELSE IF IsSome(r.target)
            THEN [st EXCEPT !.move_action = Some(Toward(Unwrap(r.target))),
                            !.used = st.used + r.used]
            ELSE [st EXCEPT !.used = st.used + r.used]
        Named(t) ==
            CASE t \in Words.forward -> [st EXCEPT !.move_action = Some(Forward)]
              [] t \in Words.backward -> [st EXCEPT !.move_action = Some(Backward)]
              [] OTHER -> Resolved(resolve_target(Chars(target_or_default(entry)),
                                                  actor, actors, rs, st.used + 1))
    IN IF IsSome(st.move_action) THEN st
       ELSE Named(to_lowercase(Chars(target_or_default(entry))))

\* One entry of the rule program (the body of execute_apl's for loop).
apl_entry(entry, st, actor, actors, rs) ==
    LET Matched(action) ==
            CASE action \in Words.attack -> apl_attack(entry, st, actor, actors, rs)
              [] action \in Words.move -> apl_move(entry, st, actor, actors, rs)
              [] OTHER -> st
    IN IF IsSome(entry.condition)
          /\ ~evaluate_condition(Unwrap(entry.condition), actor, actors)
       THEN st
       ELSE Matched(to_lowercase(Chars(entry.action)))

\* execute_apl's for loop from entry i on, with its break once both are set.
RECURSIVE apl_scan(_, _, _, _, _, _)
apl_scan(apl, i, st, actor, actors, rs) ==
    IF i > Len(apl) \/ (IsSome(st.move_action) /\ IsSome(st.attack_action)) THEN st
    ELSE apl_scan(apl, i + 1, apl_entry(apl[i], st, actor, actors, rs),
                  actor, actors, rs)

\* execute_apl(actor, actors, rng), with rs the values its random picks take
\* from rng, in order: [move_action, attack_action, used, ok].
execute_apl(actor, actors, rs) ==
    apl_scan(IF actor.apl = <<>> THEN default_apl ELSE actor.apl, 1,
             [move_action |-> NoneV, attack_action |-> NoneV,
              used |-> 0, ok |-> TRUE],
             actor, actors, rs)

\* The sequences of values one call of execute_apl may take from rng: each
\* entry draws at most once, a pick among n candidates is in 0..n-1.
AplDraws(actor, actors) ==
    UNION { [1..k -> 0..(Cardinality(DOMAIN actors) - 1)] : k \in 0..Len(actor.apl) }

\* Every way one call of execute_apl can go: the TurnActions it gives, with
\* the values it took from rng (all of rs, and no more).
TurnActions(actor, actors) ==
    LET Run(rs) == [actions |-> execute_apl(actor, actors, rs), draws |-> rs]
    IN { r \in { Run(rs) : rs \in AplDraws(actor, actors) } :
           r.actions.ok /\ r.actions.used = Len(r.draws) }

\* ---------------------------------------------------------------- state

VARIABLES
    encounter,       \* the Encounter the simulator is built from
    actors,          \* CombatSimulator.actors: id -> Actor
    events,          \* CombatSimulator.events: the log
    round,           \* CombatSimulator.round
    max_rounds,      \* CombatSimulator.max_rounds
    zone_capacity,   \* CombatSimulator.zone_capacity
    initiative_type, \* CombatSimulator.initiative_type
    initiative_dice, \* CombatSimulator.initiative_dice
    phases,          \* CombatSimulator.phases
    pc,              \* where run is: "run" (at the while test), "round"
                     \* (inside a run_round_* call), "returned", "panicked"
    sides_order,     \* run_round_side*: [first_side, second_side]
    side_idx,        \* run_round_side*: which of the two is acting (1, 2)
    phase_idx,       \* run_round_*_phases: the phase being run (1-based)
    initiatives,     \* run_round_individual*: the sorted (id, roll) pairs
    order,           \* the actor ids the current for loop has yet to visit
    result,          \* the CombatResult run returned, once it has
    rng_draws,       \* history: the values taken from rng so far, in order
    rng_traced,      \* whether the histories are kept (they are when a
                     \* battle is fought twice, and left empty otherwise)
    battle,          \* 1: the first battle; 2: the same one fought again
    step,            \* history: the steps this battle has taken
    first_run,       \* history: the first battle, one Snapshot per step
    zone_calls,      \* a caller of Zone's functions: the zones it passes
                     \* and what the calls returned (no caller in a battle)
    apl_calls        \* a caller of apl.rs on the roster: None, or Some of the
                     \* call it made and what it returned

vars == <<encounter, actors, events, round, max_rounds, zone_capacity,
          initiative_type, initiative_dice, phases, pc, sides_order, side_idx,
          phase_idx, initiatives, order, result, rng_draws, rng_traced,
          battle, step, first_run, zone_calls, apl_calls>>

config_vars == <<encounter, max_rounds, zone_capacity, initiative_type,
                 initiative_dice, phases, rng_traced>>

\* rng_draws after the values `draws` were taken from rng.
Drawn(draws) == rng_draws' = IF rng_traced THEN rng_draws \o draws ELSE rng_draws

\* What a battle is at one step: the simulator, where run is, and the values
\* taken from rng so far.
Snapshot ==
    [actors |-> actors, events |-> events, round |-> round, pc |-> pc,
     sides_order |-> sides_order, side_idx |-> side_idx, phase_idx |-> phase_idx,
     initiatives |-> initiatives, order |-> order, result |-> result,
     rng_draws |-> rng_draws]

\* One sequence of draws is the beginning of the other.
Compatible(a, b) ==
    \A k \in 1..(IF Len(a) <= Len(b) THEN Len(a) ELSE Len(b)) : a[k] = b[k]

\* The same seed gives the same values: what the second battle has taken from
\* rng is what the first one took.
SameSeed(draws) == battle > 1 => Compatible(draws, first_run[Len(first_run)].rng_draws)

\* The histories after a step of a battle.  The first battle is recorded; the
\* second is fed the values of the first.
Recorded ==
    /\ battle' = battle
    /\ zone_calls' = zone_calls
    /\ apl_calls' = apl_calls
    /\ IF rng_traced
       THEN /\ step' = step + 1
            /\ first_run' = IF battle = 1 THEN Append(first_run, Snapshot')
                            ELSE first_run
            /\ SameSeed(rng_draws')
       ELSE UNCHANGED <<step, first_run>>

\* ---------------------------------------------------------------- types.rs: ZoneCapacities

ZoneCapacities(ranged, reach, melee) == [ranged |-> ranged, reach |-> reach, melee |-> melee]

capacity_for(capacities, zone) ==
    CASE zone \in {"Side1Ranged", "Side2Ranged"} -> capacities.ranged
      [] zone \in {"Side1Reach", "Side2Reach"} -> Some(capacities.reach)
      [] zone \in {"Side1Melee", "Side2Melee"} -> Some(capacities.melee)

\* ---------------------------------------------------------------- combat.rs: zones

\* zone_has_capacity letting the occupancy reach the capacity.
zone_has_capacity_inclusive(acts, zone, exclude_actor_id) ==
    LET capacity == capacity_for(zone_capacity, zone)
    IN IF ~IsSome(capacity) THEN TRUE
       ELSE Cardinality({i \in DOMAIN acts :
                            /\ acts[i].zone = zone
                            /\ is_alive(acts[i])
                            /\ acts[i].id # exclude_actor_id}) <= Unwrap(capacity)

zone_has_capacity(acts, zone, exclude_actor_id) ==
    LET capacity == capacity_for(zone_capacity, zone)
    IN IF ~IsSome(capacity) THEN TRUE
       ELSE Cardinality({i \in DOMAIN acts :
                            /\ acts[i].zone = zone
                            /\ is_alive(acts[i])
                            /\ acts[i].id # exclude_actor_id}) < Unwrap(capacity)

\* zone_has_enemies looking at the mover's own side.
zone_has_allies(acts, zone, actor_side) ==
    \E i \in DOMAIN acts :
        acts[i].zone = zone /\ is_alive(acts[i]) /\ acts[i].side = actor_side

\* zone_has_enemies seeing only the enemies that have been hurt.
zone_has_enemies_hurt(acts, zone, actor_side) ==
    \E i \in DOMAIN acts :
        /\ acts[i].zone = zone
        /\ is_alive(acts[i])
        /\ acts[i].current_hp < acts[i].max_hp
        /\ acts[i].side # actor_side

zone_has_enemies(acts, zone, actor_side) ==
    \E i \in DOMAIN acts :
        acts[i].zone = zone /\ is_alive(acts[i]) /\ acts[i].side # actor_side

\* can_enter_zone asking for room only.
can_enter_zone_by_capacity(acts, zone, actor_id, actor_side) ==
    zone_has_capacity(acts, zone, actor_id)

can_enter_zone(acts, zone, actor_id, actor_side) ==
    zone_has_capacity(acts, zone, actor_id) /\ ~zone_has_enemies(acts, zone, actor_side)

\* ---------------------------------------------------------------- combat.rs: victory

is_combat_over(acts) ==
    LET side1_alive == \E i \in DOMAIN acts : acts[i].side = "Side1" /\ is_alive(acts[i])
        side2_alive == \E i \in DOMAIN acts : acts[i].side = "Side2" /\ is_alive(acts[i])
    IN ~side1_alive \/ ~side2_alive

\* get_winner naming the first side found standing.
get_winner_first_standing(acts) ==
    LET side1_alive == \E i \in DOMAIN acts : acts[i].side = "Side1" /\ is_alive(acts[i])
        side2_alive == \E i \in DOMAIN acts : acts[i].side = "Side2" /\ is_alive(acts[i])
    IN CASE side1_alive -> Some("Side1")
         [] side2_alive -> Some("Side2")
         [] OTHER -> NoneV

get_winner(acts) ==
    LET side1_alive == \E i \in DOMAIN acts : acts[i].side = "Side1" /\ is_alive(acts[i])
        side2_alive == \E i \in DOMAIN acts : acts[i].side = "Side2" /\ is_alive(acts[i])
    IN CASE side1_alive /\ ~side2_alive -> Some("Side1")
         [] ~side1_alive /\ side2_alive -> Some("Side2")
         [] OTHER -> NoneV

\* ---------------------------------------------------------------- combat.rs: execute_move

\* The loop `for _ in 0..speed` of execute_move: n steps left, from `current`
\* toward `dest`.
RECURSIVE move_steps(_, _, _, _, _, _)
move_steps(acts, actor_id, actor_side, current, dest, n) ==
    IF n = 0 THEN current
    ELSE LET next == toward(current, dest)
         IN IF ~IsSome(next) THEN current
            ELSE IF can_enter_zone(acts, Unwrap(next), actor_id, actor_side)
                 THEN move_steps(acts, actor_id, actor_side, Unwrap(next), dest, n - 1)
                 ELSE current

\* move_target_zone with forward and backward exchanged.
move_target_zone_about_face(acts, actor_id, direction) ==
    CASE direction.kind = "Toward" -> acts[direction.target_id].zone
      [] direction.kind = "ToZone" -> direction.zone
      [] direction.kind = "Forward" ->
             IF acts[actor_id].side = "Side1" THEN "Side1Ranged" ELSE "Side2Ranged"
      [] direction.kind = "Backward" ->
             IF acts[actor_id].side = "Side1" THEN "Side2Ranged" ELSE "Side1Ranged"

\* The zone a direction heads for.
move_target_zone(acts, actor_id, direction) ==
    CASE direction.kind = "Toward" -> acts[direction.target_id].zone
      [] direction.kind = "ToZone" -> direction.zone
      [] direction.kind = "Forward" ->
             IF acts[actor_id].side = "Side1" THEN "Side2Ranged" ELSE "Side1Ranged"
      [] direction.kind = "Backward" ->
             IF acts[actor_id].side = "Side1" THEN "Side1Ranged" ELSE "Side2Ranged"

\* A Move event stamped with the rounds counted from 0.
MoveEventFromZero(rnd, actor, from, to) ==
    [round |-> rnd - 1, actor_id |-> actor.id, actor_name |-> actor.name,
     type |-> "Move", from |-> from, to |-> to]

MoveEvent(rnd, actor, from, to) ==
    [round |-> rnd, actor_id |-> actor.id, actor_name |-> actor.name,
     type |-> "Move", from |-> from, to |-> to]

\* execute_move logging a Move event whether or not the zone changed.
execute_move_always_logged(acts, evs, actor_id, direction) ==
    LET Moved(actor, to_zone) ==
            [actors |-> [acts EXCEPT ![actor_id].zone = to_zone],
             events |-> Append(evs, MoveEvent(round, actor, actor.zone, to_zone))]
    IN Moved(acts[actor_id],
             move_steps(acts, actor_id, acts[actor_id].side, acts[actor_id].zone,
                        move_target_zone(acts, actor_id, direction),
                        acts[actor_id].speed))

\* execute_move with one step more than the actor's speed.
execute_move_hurried(acts, evs, actor_id, direction) ==
    LET Moved(actor, to_zone) ==
            IF to_zone # actor.zone
            THEN [actors |-> [acts EXCEPT ![actor_id].zone = to_zone],
                  events |-> Append(evs, MoveEvent(round, actor, actor.zone, to_zone))]
            ELSE [actors |-> acts, events |-> evs]
    IN Moved(acts[actor_id],
             move_steps(acts, actor_id, acts[actor_id].side, acts[actor_id].zone,
                        move_target_zone(acts, actor_id, direction),
                        acts[actor_id].speed + 1))

\* execute_move on roster acts and log evs: the roster and log after it.
execute_move(acts, evs, actor_id, direction) ==
    LET Moved(actor, to_zone) ==
            IF to_zone # actor.zone
            THEN [actors |-> [acts EXCEPT ![actor_id].zone = to_zone],
                  events |-> Append(evs, MoveEvent(round, actor, actor.zone, to_zone))]
            ELSE [actors |-> acts, events |-> evs]
    IN Moved(acts[actor_id],
             move_steps(acts, actor_id, acts[actor_id].side, acts[actor_id].zone,
                        move_target_zone(acts, actor_id, direction),
                        acts[actor_id].speed))

\* ---------------------------------------------------------------- combat.rs: execute_attack

AttackDie == 20

\* The faces rng.gen_range(1..=20) is let to give.
D20Faces == {1 + ((i * (AttackDie - 1)) \div (RollSamples - 1)) : i \in 0..(RollSamples - 1)}

AttackEvent(rnd, attacker, target, roll_total, hit, damage) ==
    [round |-> rnd, actor_id |-> attacker.id, actor_name |-> attacker.name,
     type |-> "Attack", target_id |-> target.id, target_name |-> target.name,
     roll |-> roll_total, target_ac |-> target.ac, hit |-> hit, damage |-> damage]

\* A Death event that does not name the killer.
DeathEventUnattributed(rnd, target, killer_id) ==
    [round |-> rnd, actor_id |-> target.id, actor_name |-> target.name,
     type |-> "Death", killer_id |-> NoneV]

DeathEvent(rnd, target, killer_id) ==
    [round |-> rnd, actor_id |-> target.id, actor_name |-> target.name,
     type |-> "Death", killer_id |-> killer_id]

\* resolve_attack logging a Death event for every hit.
resolve_attack_mourning(acts, evs, attacker_id, target_id, d20, faces) ==
    LET Logged(acts1, evs1, hit) ==
            [actors |-> acts1,
             events |-> IF hit
                        THEN Append(evs1, DeathEvent(round, acts[target_id],
                                                     Some(attacker_id)))
                        ELSE evs1]
        Resolved(attacker, target, total, hit, damage) ==
            Logged(IF hit THEN [acts EXCEPT ![target_id].current_hp = @ - damage]
                   ELSE acts,
                   Append(evs, AttackEvent(round, attacker, target, total, hit, damage)),
                   hit)
        Rolled(attacker, target, total) ==
            Resolved(attacker, target, total, total >= target.ac,
                     IF total >= target.ac THEN roll(attacker.damage, faces) ELSE 0)
    IN Rolled(acts[attacker_id], acts[target_id], d20 + acts[attacker_id].attack_bonus)

\* resolve_attack with a miss costing the target one hit point.
resolve_attack_grazing(acts, evs, attacker_id, target_id, d20, faces) ==
    LET Logged(acts1, evs1, hit) ==
            [actors |-> acts1,
             events |-> IF hit /\ ~is_alive(acts1[target_id])
                        THEN Append(evs1, DeathEvent(round, acts[target_id],
                                                     Some(attacker_id)))
                        ELSE evs1]
        Resolved(attacker, target, total, hit, damage) ==
            Logged(IF hit THEN [acts EXCEPT ![target_id].current_hp = @ - damage]
                   ELSE [acts EXCEPT ![target_id].current_hp = @ - 1],
                   Append(evs, AttackEvent(round, attacker, target, total, hit, damage)),
                   hit)
        Rolled(attacker, target, total) ==
            Resolved(attacker, target, total, total >= target.ac,
                     IF total >= target.ac THEN roll(attacker.damage, faces) ELSE 0)
    IN Rolled(acts[attacker_id], acts[target_id], d20 + acts[attacker_id].attack_bonus)

\* execute_attack past its range check, with d20 the face of the attack die
\* and faces the faces of the damage dice (used on a hit only).
resolve_attack(acts, evs, attacker_id, target_id, d20, faces) ==
    LET Logged(acts1, evs1, hit) ==
            [actors |-> acts1,
             events |-> IF hit /\ ~is_alive(acts1[target_id])
                        THEN Append(evs1, DeathEvent(round, acts[target_id],
                                                     Some(attacker_id)))
                        ELSE evs1]
        Resolved(attacker, target, total, hit, damage) ==
            Logged(IF hit THEN [acts EXCEPT ![target_id].current_hp = @ - damage]
                   ELSE acts,
                   Append(evs, AttackEvent(round, attacker, target, total, hit, damage)),
                   hit)
        Rolled(attacker, target, total) ==
            Resolved(attacker, target, total, total >= target.ac,
                     IF total >= target.ac THEN roll(attacker.damage, faces) ELSE 0)
    IN Rolled(acts[attacker_id], acts[target_id], d20 + acts[attacker_id].attack_bonus)

Outcome(acts, evs, draws, panic) ==
    [actors |-> acts, events |-> evs, draws |-> draws, panic |-> panic]

\* execute_attack: every way it can end, one per choice of the values it
\* takes from rng.  A hit by an attacker whose damage dice have a die without
\* faces panics inside roll, before anything is logged.
execute_attack(acts, evs, attacker_id, target_id) ==
    LET attacker == acts[attacker_id]
        target   == acts[target_id]
    IN IF ~can_attack(attacker, target) THEN {Outcome(acts, evs, <<>>, FALSE)}
       ELSE UNION {
              IF d20 + attacker.attack_bonus >= target.ac
              THEN IF DiceFaces(attacker.damage) = {}
                   THEN {Outcome(acts, evs, <<d20>>, TRUE)}
                   ELSE { LET r == resolve_attack(acts, evs, attacker_id, target_id, d20, faces)
                          IN Outcome(r.actors, r.events, <<d20>> \o faces, FALSE)
                          : faces \in DiceFaces(attacker.damage) }
              ELSE { LET r == resolve_attack(acts, evs, attacker_id, target_id, d20, <<>>)
                     IN Outcome(r.actors, r.events, <<d20>>, FALSE) }
              : d20 \in D20Faces }

\* ---------------------------------------------------------------- combat.rs: turns

\* `o` with the draws `draws` taken before its own.
After(draws, o) == [o EXCEPT !.draws = draws \o @]

\* The roster and log `m` as the outcome of a step that took `draws`.
Drew(m, draws) == Outcome(m.actors, m.events, draws, FALSE)

\* The attack half of a turn: execute_apl for the attack, then execute_attack.
attack_part(acts, evs, actor_id) ==
    UNION { IF IsSome(r.actions.attack_action)
            THEN { After(r.draws, o) :
                     o \in execute_attack(acts, evs, actor_id,
                                          Unwrap(r.actions.attack_action)) }
            ELSE {Outcome(acts, evs, r.draws, FALSE)}
            : r \in TurnActions(acts[actor_id], acts) }

\* The move half of a turn: execute_apl for the move, then execute_move.
move_part(acts, evs, actor_id) ==
    { IF IsSome(r.actions.move_action)
      THEN Drew(execute_move(acts, evs, actor_id, Unwrap(r.actions.move_action)),
                r.draws)
      ELSE Outcome(acts, evs, r.draws, FALSE)
      : r \in TurnActions(acts[actor_id], acts) }

\* execute_full_turn asking execute_apl once, before the move, for both actions.
execute_full_turn_decided_once(acts, evs, actor_id) ==
    IF ~is_alive(acts[actor_id]) THEN {Outcome(acts, evs, <<>>, FALSE)}
    ELSE UNION { LET Attacks(m) ==
                         IF IsSome(r.actions.attack_action)
                         THEN { After(r.draws, o) :
                                  o \in execute_attack(m.actors, m.events, actor_id,
                                                       Unwrap(r.actions.attack_action)) }
                         ELSE {Outcome(m.actors, m.events, r.draws, FALSE)}
                 IN Attacks(IF IsSome(r.actions.move_action)
                            THEN execute_move(acts, evs, actor_id,
                                              Unwrap(r.actions.move_action))
                            ELSE [actors |-> acts, events |-> evs])
                 : r \in TurnActions(acts[actor_id], acts) }

\* execute_full_turn with the attack before the move.
execute_full_turn_attack_first(acts, evs, actor_id) ==
    IF ~is_alive(acts[actor_id]) THEN {Outcome(acts, evs, <<>>, FALSE)}
    ELSE UNION { IF a.panic THEN {a}
                 ELSE { After(a.draws, m) : m \in move_part(a.actors, a.events, actor_id) }
                 : a \in attack_part(acts, evs, actor_id) }

execute_full_turn(acts, evs, actor_id) ==
    IF ~is_alive(acts[actor_id]) THEN {Outcome(acts, evs, <<>>, FALSE)}
    ELSE UNION { { After(m.draws, o) : o \in attack_part(m.actors, m.events, actor_id) }
                 : m \in move_part(acts, evs, actor_id) }

execute_movement_only(acts, evs, actor_id) ==
    IF ~is_alive(acts[actor_id]) THEN {Outcome(acts, evs, <<>>, FALSE)}
    ELSE move_part(acts, evs, actor_id)

execute_attack_only(acts, evs, actor_id) ==
    IF ~is_alive(acts[actor_id]) THEN {Outcome(acts, evs, <<>>, FALSE)}
    ELSE attack_part(acts, evs, actor_id)

\* ---------------------------------------------------------------- combat.rs: ordering

Swap(s, i, j) == [s EXCEPT ![i] = s[j], ![j] = s[i]]

\* The values the Fisher-Yates loop over n ids takes from rng:
\* js[i] = rng.gen_range(0..=i) for i = n-1 down to 1.
ShuffleDraws(n) == { js \in [1..(n - 1) -> 0..(n - 1)] : \A i \in 1..(n - 1) : js[i] <= i }

\* for i in (1..order.len()).rev() { order.swap(i, j) }, from index i down.
RECURSIVE fisher_yates(_, _, _)
fisher_yates(ord, js, i) ==
    IF i < 1 THEN ord
    ELSE fisher_yates(Swap(ord, i + 1, js[i] + 1), js, i - 1)

\* A shuffle that takes its values from another source than rng.
ShuffleElsewhere(js) == <<>>

\* The draws of a shuffle in the order they are taken.
ShuffleTaken(js) == [k \in 1..Len(js) |-> js[Len(js) + 1 - k]]

\* get_shuffled_side_order leaving out the last of the shuffled order.
get_shuffled_side_order_but_one(acts, side, js) ==
    LET living == SelectSeq(ActorIds(acts),
                            LAMBDA i : is_alive(acts[i]) /\ acts[i].side = side)
        AllButLast(ord) == SubSeq(ord, 1, Len(ord) - 1)
    IN AllButLast(fisher_yates(living, js, Len(living) - 1))

\* get_shuffled_side_order (and the same lines of run_round_side), given js.
get_shuffled_side_order(acts, side, js) ==
    LET living == SelectSeq(ActorIds(acts),
                            LAMBDA i : is_alive(acts[i]) /\ acts[i].side = side)
    IN fisher_yates(living, js, Len(living) - 1)

LivingOfSide(acts, side) ==
    {i \in DOMAIN acts : is_alive(acts[i]) /\ acts[i].side = side}

Living(acts) == SelectSeq(ActorIds(acts), LAMBDA i : is_alive(acts[i]))

\* is_less comparing a.1 with b.1, the lower roll first.
is_less_ascending(a, b, coin) ==
    IF a.roll < b.roll THEN [less |-> TRUE, used |-> 0]
    ELSE IF a.roll > b.roll THEN [less |-> FALSE, used |-> 0]
    ELSE [less |-> coin = 1, used |-> 1]

\* The comparator of the two sort_by calls, as is_less(a, b) = (compare(a, b)
\* = Less): b.1.cmp(&a.1), and on a tie the coin rng.gen_bool(0.5) (1: Less).
\* [less, used]: used = 1 when the coin was flipped.
is_less(a, b, coin) ==
    IF b.roll < a.roll THEN [less |-> TRUE, used |-> 0]
    ELSE IF b.roll > a.roll THEN [less |-> FALSE, used |-> 0]
    ELSE [less |-> coin = 1, used |-> 1]

\* slice::sort_by on a short slice is an insertion sort: element x is moved
\* left past v[j-1] while is_less(x, v[j-1]).  st = [v, used, ok]; coins are
\* the flips taken from rng, in order.
RECURSIVE sift(_, _, _, _)
sift(st, x, j, coins) ==
    IF j = 1 THEN [st EXCEPT !.v[1] = x]
    ELSE LET tie == st.v[j - 1].roll = x.roll
         IN IF tie /\ st.used + 1 > Len(coins)
            THEN [st EXCEPT !.ok = FALSE]
            ELSE LET c == is_less(x, st.v[j - 1],
                                  IF tie THEN coins[st.used + 1] ELSE 0)
                     st1 == [st EXCEPT !.used = @ + c.used]
                 IN IF c.less
                    THEN sift([st1 EXCEPT !.v[j] = st.v[j - 1]], x, j - 1, coins)
                    ELSE [st1 EXCEPT !.v[j] = x]

RECURSIVE insertion_sort(_, _, _)
insertion_sort(st, i, coins) ==
    IF i > Len(st.v) \/ ~st.ok THEN st
    ELSE insertion_sort(sift(st, st.v[i], i, coins), i + 1, coins)

sort_by(v, coins) == insertion_sort([v |-> v, used |-> 0, ok |-> TRUE], 2, coins)

\* The coin sequences a sort of v can take from rng.
SortDraws(v) ==
    LET Done(r, coins) == r.ok /\ r.used = Len(coins)
    IN { coins \in UNION { [1..k -> {0, 1}] : k \in 0..((Len(v) * (Len(v) - 1)) \div 2) } :
           Done(sort_by(v, coins), coins) }

\* The initiative rolls of run_round_individual*: one roll of the initiative
\* dice per living actor, in roster order.  fs[k] are the faces of the k-th.
InitiativeFaces(acts) == [1..Len(Living(acts)) -> DiceFaces(initiative_dice)]

roll_initiatives(acts, fs) ==
    LET living == Living(acts)
    IN [k \in 1..Len(living) |->
           [id |-> living[k],
            roll |-> roll(initiative_dice, fs[k]) + acts[living[k]].initiative_modifier]]

RECURSIVE Flatten(_)
Flatten(ss) == IF ss = <<>> THEN <<>> ELSE Head(ss) \o Flatten(Tail(ss))

\* ---------------------------------------------------------------- encounters

HpFixed(v) == [kind |-> "Fixed", value |-> v]

HpDice(text) == [kind |-> "Dice", text |-> text]

Template(name, hp, ac, attack_bonus, damage, speed, range, start_zone, apl, initiative_modifier) ==
    [name |-> name, hp |-> hp, ac |-> ac, attack_bonus |-> attack_bonus,
     damage |-> damage, speed |-> speed, range |-> range,
     start_zone |-> start_zone, apl |-> apl,
     initiative_modifier |-> initiative_modifier]

Initiative(itype, dice, phase_list) ==
    [initiative_type |-> itype, dice |-> dice, phases |-> phase_list]

Encounter(side1, side2, capacities, initiative) ==
    [side1 |-> side1, side2 |-> side2, zone_capacity |-> capacities,
     initiative |-> initiative]

InitiativeTypes == {"Side", "Individual", "SidePhases", "IndividualPhases"}

CanonicalPhases == <<"Movement", "Ranged", "Reach", "Melee">>

\* HpValue::roll: the values it can give, each with the faces drawn for it.
hp_roll(hp) ==
    LET Parsed(p) ==
            IF p.ok
            THEN {[hp |-> Max(roll(p.dice, faces), 1), draws |-> faces] :
                     faces \in DiceFaces(p.dice)}
            ELSE {[hp |-> 1, draws |-> <<>>]}
    IN IF hp.kind = "Fixed" THEN {[hp |-> hp.value, draws |-> <<>>]}
       ELSE Parsed(parse_damage_dice(Chars(hp.text)))

start_zone_of(side, start_zone) ==
    CASE side = "Side1" /\ start_zone = "Ranged" -> "Side1Ranged"
      [] side = "Side1" /\ start_zone = "Reach"  -> "Side1Reach"
      [] side = "Side1" /\ start_zone = "Melee"  -> "Side1Melee"
      [] side = "Side2" /\ start_zone = "Ranged" -> "Side2Ranged"
      [] side = "Side2" /\ start_zone = "Reach"  -> "Side2Reach"
      [] side = "Side2" /\ start_zone = "Melee"  -> "Side2Melee"

\* Actor::from_template, with hp the value template.hp.roll(rng) gave.
from_template(id, template, side, hp) ==
    [id |-> id, name |-> template.name, side |-> side,
     max_hp |-> hp, current_hp |-> hp,
     ac |-> template.ac, attack_bonus |-> template.attack_bonus,
     damage |-> template.damage, speed |-> template.speed,
     range |-> template.range,
     zone |-> start_zone_of(side, template.start_zone),
     apl |-> template.apl,
     initiative_modifier |-> template.initiative_modifier]

\* The hit-point rolls of a roster: one outcome of hp_roll per template.
HpOutcomes(templates) ==
    { h \in [1..Len(templates) -> UNION {hp_roll(templates[k].hp) : k \in 1..Len(templates)}] :
        \A k \in 1..Len(templates) : h[k] \in hp_roll(templates[k].hp) }

DefaultInitiativeDice == Dice(1, 20, 0)

\* CombatSimulator::new: the roster, side 1 first, ids from 0.
new_actors(e, h) ==
    LET n1 == Len(e.side1)
        n2 == Len(e.side2)
    IN [id \in 0..(n1 + n2 - 1) |->
           IF id < n1
           THEN from_template(id, e.side1[id + 1], "Side1", h[id + 1].hp)
           ELSE from_template(id, e.side2[id - n1 + 1], "Side2", h[id + 1].hp)]

\* new_initiative_dice falling back on dice without faces.
new_initiative_dice_or_nothing(e) ==
    LET Parsed(p) == IF p.ok THEN p.dice ELSE Dice(0, 0, 0)
    IN Parsed(parse_damage_dice(Chars(e.initiative.dice)))

new_initiative_dice(e) ==
    LET Parsed(p) == IF p.ok THEN p.dice ELSE DefaultInitiativeDice
    IN Parsed(parse_damage_dice(Chars(e.initiative.dice)))

\* ---------------------------------------------------------------- combat.rs: run

\* The while test letting a round start at the cap.
run_continues_at_cap == ~is_combat_over(actors) /\ round <= max_rounds

\* The test of run's while loop.
run_continues == ~is_combat_over(actors) /\ round < max_rounds

ActorState(a) ==
    [id |-> a.id, name |-> a.name, side |-> a.side, max_hp |-> a.max_hp,
     final_hp |-> a.current_hp, alive |-> is_alive(a), zone |-> a.zone]

CombatResult ==
    [winner |-> get_winner(actors), rounds |-> round, events |-> events,
     final_state |-> [i \in DOMAIN actors |-> ActorState(actors[i])]]

\* Leaving a run_round_* call: its locals are gone.
RoundReturns ==
    /\ pc' = "run"
    /\ sides_order' = <<>>
    /\ side_idx' = 0
    /\ phase_idx' = 0
    /\ initiatives' = <<>>
    /\ order' = <<>>

\* A panic unwinds run: nothing is returned.
Panics == pc' = "panicked" /\ UNCHANGED <<sides_order, side_idx, phase_idx, initiatives, order>>

\* The effect of one actor's turn `o` on the roster, the log and rng.
Applies(o) ==
    /\ actors' = o.actors
    /\ events' = o.events
    /\ Drawn(o.draws)

\* A turn after which the loop goes on without asking is_combat_over.
TurnEndsUnasked(o) ==
    IF o.panic THEN Panics
    ELSE /\ order' = Tail(order)
         /\ UNCHANGED <<pc, sides_order, side_idx, phase_idx, initiatives>>

\* After a turn that checks is_combat_over: return from the round, or go on
\* with the next actor of the loop.
TurnEnds(o) ==
    IF o.panic THEN Panics
    ELSE IF is_combat_over(o.actors) THEN RoundReturns
    ELSE /\ order' = Tail(order)
         /\ UNCHANGED <<pc, sides_order, side_idx, phase_idx, initiatives>>

\* After a step that does not check is_combat_over.
StepEnds(o) ==
    IF o.panic THEN Panics
    ELSE /\ order' = Tail(order)
         /\ UNCHANGED <<pc, sides_order, side_idx, phase_idx, initiatives>>

\* run, when the while test fails: build the CombatResult.
run_returns ==
    /\ pc = "run"
    /\ ~run_continues
    /\ pc' = "returned"
    /\ result' = Some(CombatResult)
    /\ UNCHANGED <<actors, events, round, config_vars, sides_order, side_idx,
                   phase_idx, initiatives, order, rng_draws>>
    /\ Recorded

\* ---- InitiativeType::Side

\* run's loop body into run_round_side: the coin for the first side, and the
\* shuffle of that side.
run_round_side_begin ==
    /\ pc = "run"
    /\ run_continues
    /\ initiative_type = "Side"
    /\ round' = round + 1
    /\ \E coin \in {0, 1} :
         LET first_side == IF coin = 1 THEN "Side1" ELSE "Side2"
         IN \E js \in ShuffleDraws(Cardinality(LivingOfSide(actors, first_side))) :
              /\ sides_order' = <<first_side, opposite(first_side)>>
              /\ side_idx' = 1
              /\ order' = get_shuffled_side_order(actors, first_side, js)
              /\ Drawn(<<coin>> \o ShuffleTaken(js))
    /\ pc' = "round"
    /\ UNCHANGED <<actors, events, config_vars, phase_idx, initiatives, result>>
    /\ Recorded

\* One pass of `for actor_id in order`.
run_round_side_turn ==
    /\ pc = "round"
    /\ initiative_type = "Side"
    /\ order # <<>>
    /\ \E o \in execute_full_turn(actors, events, Head(order)) :
         Applies(o) /\ TurnEnds(o)
    /\ UNCHANGED <<round, config_vars, result>>
    /\ Recorded

\* The end of `for actor_id in order`: on to the second side, or out of the round.
run_round_side_next ==
    /\ pc = "round"
    /\ initiative_type = "Side"
    /\ order = <<>>
    /\ IF side_idx = 1
       THEN \E js \in ShuffleDraws(Cardinality(LivingOfSide(actors, sides_order[2]))) :
              /\ side_idx' = 2
              /\ order' = get_shuffled_side_order(actors, sides_order[2], js)
              /\ Drawn(ShuffleTaken(js))
              /\ UNCHANGED <<pc, sides_order, phase_idx, initiatives>>
       ELSE RoundReturns /\ UNCHANGED rng_draws
    /\ UNCHANGED <<actors, events, round, config_vars, result>>
    /\ Recorded

\* ---- InitiativeType::Individual

\* What the initiative rolls and the sort of run_round_individual* can give:
\* [initiatives |-> the sorted pairs, draws |-> the values taken, panic].
roll_and_sort(acts) ==
    LET Sorted(v, fs) ==
            { [initiatives |-> sort_by(v, coins).v,
               draws |-> Flatten(fs) \o coins, panic |-> FALSE]
              : coins \in SortDraws(v) }
    IN IF InitiativeFaces(acts) = {}
       THEN {[initiatives |-> <<>>, draws |-> <<>>, panic |-> TRUE]}
       ELSE UNION { Sorted(roll_initiatives(acts, fs), fs)
                    : fs \in InitiativeFaces(acts) }

IdsOf(pairs) == [k \in 1..Len(pairs) |-> pairs[k].id]

run_round_individual_begin ==
    /\ pc = "run"
    /\ run_continues
    /\ initiative_type = "Individual"
    /\ round' = round + 1
    /\ \E r \in roll_and_sort(actors) :
         /\ Drawn(r.draws)
         /\ IF r.panic
            THEN Panics
            ELSE /\ initiatives' = r.initiatives
                 /\ order' = IdsOf(r.initiatives)
                 /\ pc' = "round"
                 /\ UNCHANGED <<sides_order, side_idx, phase_idx>>
    /\ UNCHANGED <<actors, events, config_vars, result>>
    /\ Recorded

\* One pass of `for (actor_id, _) in initiatives`.
run_round_individual_turn ==
    /\ pc = "round"
    /\ initiative_type = "Individual"
    /\ order # <<>>
    /\ IF ~is_alive(actors[Head(order)])
       THEN /\ order' = Tail(order)
            /\ UNCHANGED <<actors, events, rng_draws, pc, sides_order, side_idx,
                           phase_idx, initiatives>>
       ELSE \E o \in execute_full_turn(actors, events, Head(order)) :
              Applies(o) /\ TurnEnds(o)
    /\ UNCHANGED <<round, config_vars, result>>
    /\ Recorded

run_round_individual_end ==
    /\ pc = "round"
    /\ initiative_type = "Individual"
    /\ order = <<>>
    /\ RoundReturns
    /\ UNCHANGED <<actors, events, round, config_vars, result, rng_draws>>
    /\ Recorded

\* ---- InitiativeType::SidePhases

\* phase_range with the Ranged and Melee phases exchanged.
phase_range_exchanged(phase) ==
    CASE phase = "Ranged" -> "Melee"
      [] phase = "Reach" -> "Reach"
      [] phase = "Melee" -> "Ranged"

\* The weapon range an attack phase lets act.
phase_range(phase) ==
    CASE phase = "Ranged" -> "Ranged"
      [] phase = "Reach" -> "Reach"
      [] phase = "Melee" -> "Melee"

\* run's loop body into run_round_side_phases: the coin, and the shuffle of
\* the first side for the first phase (no phase: the round is over at once).
run_round_side_phases_begin ==
    /\ pc = "run"
    /\ run_continues
    /\ initiative_type = "SidePhases"
    /\ round' = round + 1
    /\ \E coin \in {0, 1} :
         LET first_side == IF coin = 1 THEN "Side1" ELSE "Side2"
         IN IF phases = <<>>
            THEN /\ Drawn(<<coin>>)
                 /\ UNCHANGED <<pc, sides_order, side_idx, phase_idx, initiatives, order>>
            ELSE \E js \in ShuffleDraws(Cardinality(LivingOfSide(actors, first_side))) :
                   /\ sides_order' = <<first_side, opposite(first_side)>>
                   /\ side_idx' = 1
                   /\ phase_idx' = 1
                   /\ order' = get_shuffled_side_order(actors, first_side, js)
                   /\ Drawn(<<coin>> \o ShuffleTaken(js))
                   /\ pc' = "round"
                   /\ UNCHANGED initiatives
    /\ UNCHANGED <<actors, events, config_vars, result>>
    /\ Recorded

\* One pass of `for actor_id in order` in the current phase.
run_round_side_phases_step ==
    /\ pc = "round"
    /\ initiative_type = "SidePhases"
    /\ order # <<>>
    /\ LET actor_id == Head(order)
           phase    == phases[phase_idx]
       IN IF phase = "Movement"
          THEN \E o \in execute_movement_only(actors, events, actor_id) :
                 Applies(o) /\ StepEnds(o)
          ELSE IF actors[actor_id].range = phase_range(phase)
               THEN \E o \in execute_attack_only(actors, events, actor_id) :
                      Applies(o) /\ TurnEnds(o)
               ELSE /\ order' = Tail(order)
                    /\ UNCHANGED <<actors, events, rng_draws, pc, sides_order,
                                   side_idx, phase_idx, initiatives>>
    /\ UNCHANGED <<round, config_vars, result>>
    /\ Recorded

\* The end of `for actor_id in order`: the second side, the next phase, or
\* out of the round.
run_round_side_phases_next ==
    /\ pc = "round"
    /\ initiative_type = "SidePhases"
    /\ order = <<>>
    /\ IF side_idx = 1
       THEN \E js \in ShuffleDraws(Cardinality(LivingOfSide(actors, sides_order[2]))) :
              /\ side_idx' = 2
              /\ order' = get_shuffled_side_order(actors, sides_order[2], js)
              /\ Drawn(ShuffleTaken(js))
              /\ UNCHANGED <<pc, sides_order, phase_idx, initiatives>>
       ELSE IF is_combat_over(actors) \/ phase_idx = Len(phases)
            THEN RoundReturns /\ UNCHANGED rng_draws
            ELSE \E js \in ShuffleDraws(Cardinality(LivingOfSide(actors, sides_order[1]))) :
                   /\ side_idx' = 1
                   /\ phase_idx' = phase_idx + 1
                   /\ order' = get_shuffled_side_order(actors, sides_order[1], js)
                   /\ Drawn(ShuffleTaken(js))
                   /\ UNCHANGED <<pc, sides_order, initiatives>>
    /\ UNCHANGED <<actors, events, round, config_vars, result>>
    /\ Recorded

\* ---- InitiativeType::IndividualPhases

run_round_individual_phases_begin ==
    /\ pc = "run"
    /\ run_continues
    /\ initiative_type = "IndividualPhases"
    /\ round' = round + 1
    /\ \E r \in roll_and_sort(actors) :
         /\ Drawn(r.draws)
         /\ IF r.panic
            THEN Panics
            ELSE IF phases = <<>>
            THEN UNCHANGED <<pc, sides_order, side_idx, phase_idx, initiatives, order>>
            ELSE /\ initiatives' = r.initiatives
                 /\ order' = IdsOf(r.initiatives)
                 /\ phase_idx' = 1
                 /\ pc' = "round"
                 /\ UNCHANGED <<sides_order, side_idx>>
    /\ UNCHANGED <<actors, events, config_vars, result>>
    /\ Recorded

\* One pass of `for &actor_id in &order` in the current phase.
run_round_individual_phases_step ==
    /\ pc = "round"
    /\ initiative_type = "IndividualPhases"
    /\ order # <<>>
    /\ LET actor_id == Head(order)
           phase    == phases[phase_idx]
       IN IF ~is_alive(actors[actor_id])
          THEN /\ order' = Tail(order)
               /\ UNCHANGED <<actors, events, rng_draws, pc, sides_order,
                              side_idx, phase_idx, initiatives>>
          ELSE IF phase = "Movement"
          THEN \E o \in execute_movement_only(actors, events, actor_id) :
                 Applies(o) /\ StepEnds(o)
          ELSE IF actors[actor_id].range = phase_range(phase)
               THEN \E o \in execute_attack_only(actors, events, actor_id) :
                      Applies(o) /\ TurnEnds(o)
               ELSE /\ order' = Tail(order)
                    /\ UNCHANGED <<actors, events, rng_draws, pc, sides_order,
                                   side_idx, phase_idx, initiatives>>
    /\ UNCHANGED <<round, config_vars, result>>
    /\ Recorded

\* The end of `for &actor_id in &order`: the next phase over the same order,
\* or out of the round.
run_round_individual_phases_next ==
    /\ pc = "round"
    /\ initiative_type = "IndividualPhases"
    /\ order = <<>>
    /\ IF is_combat_over(actors) \/ phase_idx = Len(phases)
       THEN RoundReturns
       ELSE /\ phase_idx' = phase_idx + 1
            /\ order' = IdsOf(initiatives)
            /\ UNCHANGED <<pc, sides_order, side_idx, initiatives>>
    /\ UNCHANGED <<actors, events, round, config_vars, result, rng_draws>>
    /\ Recorded

\* ---------------------------------------------------------------- the encounters checked

\* Rule programs.
AttackOnly == << AplEntry("attack", NoneV, Some("lowest_hp")) >>

Charge == << AplEntry("Move", Some("true"), Some("forward")),
             AplEntry("attack", Some("enemy.in_range"), Some("random")) >>

Retreat == << AplEntry("move", Some("self.hp < 2"), Some("backward")),
              AplEntry("attack", NoneV, NoneV),
              AplEntry("move", Some("!enemy.in_range"), Some("weakest")) >>

\* A combatant with AC 12, attack bonus +5 and damage 1d2.
Fighter(name, hp, speed, range, start_zone, apl) ==
    Template(name, HpFixed(hp), 12, 5, Dice(1, 2, 0), speed, range, start_zone, apl, 0)

DefaultCapacities == ZoneCapacities(NoneV, 3, 3)

SmallDice == Initiative("Side", "1d2", CanonicalPhases)

\* Two melee fighters face to face; B gives ground once wounded.
Duel ==
    Encounter(<< Fighter("A", 2, 1, "Melee", "Melee", <<>>) >>,
              << Fighter("B", 2, 2, "Melee", "Melee", Retreat) >>,
              DefaultCapacities, SmallDice)

\* A fast melee fighter closes in on an archer who stands and shoots, with
\* damage dice 2d2-3.
Approach ==
    Encounter(<< Fighter("A", 3, 2, "Melee", "Reach", <<>>) >>,
              << Template("B", HpFixed(2), 12, 5, Dice(2, 2, -3), 1, "Ranged", "Ranged",
                          AttackOnly, 0) >>,
              DefaultCapacities, SmallDice)

\* Two fighters want the one place of their melee zone; the ranged zones hold
\* nobody; their enemy has initiative modifier +1.
Crowd ==
    Encounter(<< Fighter("A", 2, 1, "Reach", "Reach", <<>>),
                 Fighter("B", 2, 2, "Melee", "Ranged", Charge) >>,
              << Template("C", HpFixed(2), 12, 5, Dice(1, 2, 0), 1, "Melee", "Reach",
                          Retreat, 1) >>,
              ZoneCapacities(Some(0), 2, 1), SmallDice)

\* A side without actors.
Walkover ==
    Encounter(<<>>, << Fighter("B", 2, 1, "Melee", "Melee", <<>>) >>,
              DefaultCapacities, SmallDice)

\* A side whose only actor is set up with 0 hit points.
Stillborn ==
    Encounter(<< Fighter("A", 0, 1, "Melee", "Melee", <<>>) >>, <<>>,
              DefaultCapacities, SmallDice)

\* An attacker whose damage dice have no faces ("1d0" parses).
Faceless ==
    Encounter(<< Template("A", HpFixed(2), 12, 5, Dice(1, 0, 0), 1, "Melee", "Melee", <<>>, 0) >>,
              << Fighter("B", 2, 1, "Melee", "Melee", <<>>) >>,
              DefaultCapacities, SmallDice)

\* Dice texts that do not parse: the initiative dice, and the hit points of
\* the two walkers, who start out of each other's reach.
Garbled ==
    Encounter(<< Template("A", HpDice("lots"), 12, 5, Dice(1, 2, 0), 1, "Melee", "Ranged",
                          <<>>, 0) >>,
              << Template("B", HpDice("2d"), 12, 5, Dice(1, 2, 0), 1, "Melee", "Ranged",
                          <<>>, 0) >>,
              DefaultCapacities, Initiative("Side", "d20", CanonicalPhases))

Encounters == {Duel, Approach, Crowd, Walkover, Stillborn, Faceless, Garbled}

\* Two against one, the second with rolled hit points and a random target.
Skirmish ==
    Encounter(<< Fighter("A", 1, 1, "Melee", "Melee", <<>>),
                 Template("B", HpDice("1d2"), 12, 5, Dice(1, 2, 0), 1, "Reach",
                          "Reach", Charge, 0) >>,
              << Fighter("C", 2, 1, "Melee", "Melee", <<>>) >>,
              DefaultCapacities, SmallDice)

\* The encounters that are fought twice.
TwiceEncounters == {Skirmish}

\* ---------------------------------------------------------------- specification

\* Encounter e with its initiative type set to itype.
InMode(e, itype) == [e EXCEPT !.initiative.initiative_type = itype]

\* The state CombatSimulator::new leaves, for encounter e with round cap cap;
\* h are the hit-point rolls.
Starts(e, cap, h, traced) ==
    /\ encounter = e
    /\ actors = new_actors(e, h)
    /\ events = <<>>
    /\ round = 0
    /\ max_rounds = cap
    /\ zone_capacity = e.zone_capacity
    /\ initiative_type = e.initiative.initiative_type
    /\ initiative_dice = new_initiative_dice(e)
    /\ phases = e.initiative.phases
    /\ pc = "run"
    /\ sides_order = <<>>
    /\ side_idx = 0
    /\ phase_idx = 0
    /\ initiatives = <<>>
    /\ order = <<>>
    /\ result = NoneV
    /\ rng_traced = traced
    /\ rng_draws = IF traced THEN Flatten([k \in 1..Len(h) |-> h[k].draws]) ELSE <<>>
    /\ battle = 1
    /\ step = 0
    /\ first_run = IF traced THEN <<Snapshot>> ELSE <<>>

Init ==
    /\ zone_calls = NoneV
    /\ apl_calls = NoneV
    /\ \E e \in Encounters, itype \in InitiativeTypes, cap \in 0..MaxRounds :
          \E h \in HpOutcomes(e.side1 \o e.side2) :
              Starts(InMode(e, itype), cap, h, FALSE)

Next ==
    \/ run_round_side_begin
    \/ run_round_side_turn
    \/ run_round_side_next
    \/ run_round_individual_begin
    \/ run_round_individual_turn
    \/ run_round_individual_end
    \/ run_round_side_phases_begin
    \/ run_round_side_phases_step
    \/ run_round_side_phases_next
    \/ run_round_individual_phases_begin
    \/ run_round_individual_phases_step
    \/ run_round_individual_phases_next
    \/ run_returns

Spec == Init /\ [][Next]_vars

\* The battle has returned and the same encounter is simulated again with the
\* same seed: a new simulator, and an rng that gives the same values.
simulate_again ==
    /\ pc = "returned"
    /\ battle = 1
    /\ \E h \in HpOutcomes(encounter.side1 \o encounter.side2) :
          /\ actors' = new_actors(encounter, h)
          /\ rng_draws' = IF rng_traced THEN Flatten([k \in 1..Len(h) |-> h[k].draws])
                          ELSE <<>>
    /\ events' = <<>>
    /\ round' = 0
    /\ pc' = "run"
    /\ sides_order' = <<>>
    /\ side_idx' = 0
    /\ phase_idx' = 0
    /\ initiatives' = <<>>
    /\ order' = <<>>
    /\ result' = NoneV
    /\ battle' = 2
    /\ step' = 0
    /\ Compatible(rng_draws', first_run[Len(first_run)].rng_draws)
    /\ UNCHANGED <<config_vars, first_run, zone_calls, apl_calls>>

InitTwice ==
    /\ zone_calls = NoneV
    /\ apl_calls = NoneV
    /\ \E e \in TwiceEncounters, itype \in InitiativeTypes :
          \E h \in HpOutcomes(e.side1 \o e.side2) :
              Starts(InMode(e, itype), TwiceRounds, h, TRUE)

NextTwice ==
    \/ run_round_side_begin
    \/ run_round_side_turn
    \/ run_round_side_next
    \/ run_round_individual_begin
    \/ run_round_individual_turn
    \/ run_round_individual_end
    \/ run_round_side_phases_begin
    \/ run_round_side_phases_step
    \/ run_round_side_phases_next
    \/ run_round_individual_phases_begin
    \/ run_round_individual_phases_step
    \/ run_round_individual_phases_next
    \/ run_returns
    \/ simulate_again

SpecTwice == InitTwice /\ [][NextTwice]_vars

\* ---------------------------------------------------------------- types.rs: Zone, called on its own

\* A caller holding three zones, before any call.
InitZone ==
    /\ \E a \in ZoneSet, b \in ZoneSet, c \in ZoneSet :
          zone_calls = [a |-> a, b |-> b, c |-> c, distances |-> NoneV, next |-> NoneV]
    /\ apl_calls = NoneV
    /\ \E h \in HpOutcomes(Walkover.side1 \o Walkover.side2) :
          Starts(InMode(Walkover, "Side"), 0, h, FALSE)

\* The caller measures its zones with distance_to, each way.
call_distance_to ==
    /\ zone_calls.distances = NoneV
    /\ zone_calls' = [zone_calls EXCEPT !.distances =
                          Some([aa |-> distance_to(zone_calls.a, zone_calls.a),
                                ab |-> distance_to(zone_calls.a, zone_calls.b),
                                ba |-> distance_to(zone_calls.b, zone_calls.a),
                                bc |-> distance_to(zone_calls.b, zone_calls.c),
                                ac |-> distance_to(zone_calls.a, zone_calls.c)])]
    /\ UNCHANGED <<config_vars, actors, events, round, pc, sides_order, side_idx, phase_idx,
                   initiatives, order, result, rng_draws, battle, step, first_run,
                   apl_calls>>

\* The caller asks for the step from a toward b.
call_toward ==
    /\ zone_calls.next = NoneV
    /\ zone_calls' = [zone_calls EXCEPT !.next = Some(toward(zone_calls.a, zone_calls.b))]
    /\ UNCHANGED <<config_vars, actors, events, round, pc, sides_order, side_idx, phase_idx,
                   initiatives, order, result, rng_draws, battle, step, first_run,
                   apl_calls>>

NextZone ==
    \/ call_distance_to
    \/ call_toward

SpecZone == InitZone /\ [][NextZone]_vars

\* ---------------------------------------------------------------- apl.rs, called on its own

\* The rule program execute_apl substitutes for an empty one, written out.
WrittenDefault ==
    << AplEntry("attack", Some("enemy.in_range"), Some("nearest_enemy")),
       AplEntry("move", NoneV, Some("nearest_enemy")) >>

\* One attack entry, its target the nearest enemy by each of its spellings.
AttackNearest ==
    { << AplEntry("attack", NoneV, t) >> : t \in {NoneV, Some("nearest"), Some("closest")} }

\* Programs with entries that do not apply, of unknown kinds, and that come
\* after an entry of their kind.
Mixed ==
    { << AplEntry("move", Some("false"), Some("forward")),
         AplEntry("Attack", Some("self.hp < 2"), Some("weakest")),
         AplEntry("move", Some("!enemy.in_range"), Some("backward")),
         AplEntry("attack", NoneV, Some("random")) >>,
      << AplEntry("wait", NoneV, NoneV),
         AplEntry("move", NoneV, Some("weakest")),
         AplEntry("move", Some("true"), Some("forward")),
         AplEntry("attack", Some("enemy.in_range"), Some("nearest")) >> }

AplPrograms == {<<>>, WrittenDefault} \cup AttackNearest \cup Mixed

\* The condition texts a caller passes to evaluate_condition.
Conditions ==
    {"true", "", "false", " Enemy.In_Range ", "not enemy.in_range",
     "bogus", "self.mana < 3", "self.hp = 2", "1 < self.hp < 3", "self.hp > 1 > 0",
     "self.hp < 3 > 1", "self.hp < lots", "self.hp > lots", "self.hp < 2",
     "enemy.count > 1.5", "ally.count<1"}

\* The rosters the functions are called on: A of side 1 with a rule program,
\* against B and C of side 2, each perhaps set up without hit points.
AplEncounters ==
    { Encounter(<< Template("A", HpFixed(ha), 12, 5, Dice(1, 2, 0), 1, range, za, apl, 0) >>,
                << Template("B", HpFixed(hb), 12, 5, Dice(1, 2, 0), 1, "Melee", zb, <<>>, 0),
                   Template("C", HpFixed(hc), 12, 5, Dice(1, 2, 0), 1, "Reach", zc, <<>>, 0) >>,
                DefaultCapacities, SmallDice)
      : ha \in {1, 2}, hb \in {0, 1, 2}, hc \in {0, 1, 2},
        range \in WeaponRanges, za \in {"Reach", "Melee"},
        zb \in WeaponRanges, zc \in WeaponRanges, apl \in AplPrograms }

\* A simulator just built, and a caller that has made no call.
InitApl ==
    /\ zone_calls = NoneV
    /\ apl_calls = NoneV
    /\ \E e \in AplEncounters :
          \E h \in HpOutcomes(e.side1 \o e.side2) : Starts(e, 0, h, FALSE)

\* The caller asks execute_apl what a living actor does: every TurnActions
\* the call can return, with the values it took from rng.
call_execute_apl ==
    /\ apl_calls = NoneV
    /\ \E i \in DOMAIN actors :
          /\ is_alive(actors[i])
          /\ apl_calls' = Some([fn |-> "execute_apl", actor_id |-> i,
                                returned |-> TurnActions(actors[i], actors)])
    /\ UNCHANGED <<config_vars, actors, events, round, pc, sides_order, side_idx, phase_idx,
                   initiatives, order, result, rng_draws, battle, step, first_run,
                   zone_calls>>

\* The caller asks evaluate_condition about a condition, for actor 0.
call_evaluate_condition ==
    /\ apl_calls = NoneV
    /\ \E c \in Conditions :
          apl_calls' = Some([fn |-> "evaluate_condition", actor_id |-> 0, condition |-> c,
                             returned |-> evaluate_condition(c, actors[0], actors)])
    /\ UNCHANGED <<config_vars, actors, events, round, pc, sides_order, side_idx, phase_idx,
                   initiatives, order, result, rng_draws, battle, step, first_run,
                   zone_calls>>

NextApl ==
    \/ call_execute_apl
    \/ call_evaluate_condition

SpecApl == InitApl /\ [][NextApl]_vars

\* ---------------------------------------------------------------- properties

\* Side `side` has an actor with hit points left.
HasLiving(acts, side) ==
    \E i \in DOMAIN acts : acts[i].side = side /\ acts[i].current_hp > 0

\* A side has no actor with hit points left.
OneSideDown == \E s \in Sides : ~HasLiving(actors, s)

\* The living actors standing in `zone`, the actor `but` not counted.
Occupants(acts, zone, but) ==
    {i \in DOMAIN acts : i # but /\ acts[i].zone = zone /\ acts[i].current_hp > 0}

\* The zones a move from `from` to `to` steps into, `to` included.
Crossed(from, to) ==
    {z \in ZoneSet :
        \/ position(from) < position(z) /\ position(z) <= position(to)
        \/ position(to) <= position(z) /\ position(z) < position(from)}

\* The zone after `to` for one who came from `from`, if the track goes on.
Beyond(from, to) ==
    {z \in ZoneSet :
        position(z) = position(to) + (IF position(to) > position(from) THEN 1 ELSE -1)}

\* The actors whose zone this step changes.
Movers == {i \in DOMAIN actors : actors'[i].zone # actors[i].zone}

\* The last Move of the log stopped short of the mover's speed in front of a
\* zone with room left and a living enemy in it, and only attacks that
\* killed nobody have been logged since.
StoppedByEnemy ==
    \E k \in DOMAIN events :
        /\ \A m \in (k + 1)..Len(events) : events[m].type = "Attack"
        /\ LET Stopped(e) ==
                   /\ e.type = "Move"
                   /\ actors[e.actor_id].zone = e.to
                   /\ Abs(position(e.to) - position(e.from)) < actors[e.actor_id].speed
                   /\ \E z \in Beyond(e.from, e.to) :
                         /\ zone_has_capacity(actors, z, e.actor_id)
                         /\ \E j \in Occupants(actors, z, e.actor_id) :
                               actors[j].side # actors[e.actor_id].side
           IN Stopped(events[k])

\* No step takes an actor into a zone where a living enemy stands, or where
\* there is no room.
KeepsOutOfHeldZones ==
    \A i \in Movers :
        \A z \in Crossed(actors[i].zone, actors'[i].zone) :
            /\ \A j \in Occupants(actors, z, i) : actors[j].side = actors[i].side
            /\ capacity_for(zone_capacity, z) # NoneV =>
                   Cardinality(Occupants(actors, z, i)) < Unwrap(capacity_for(zone_capacity, z))

\* C1: run always returns a CombatResult: it never aborts, and the round
\* counter stays within max_rounds.
C1_RunNeverAborts == pc # "panicked" /\ round <= max_rounds

\* C2: two battles built from the same encounter and fed the same values by
\* rng go through the same states, step for step: at every step the second
\* battle is where the first was, with the same roster, log, round counter
\* and, once returned, the same CombatResult.
C2_SameDrawsSameBattle ==
    (rng_traced /\ battle = 2) =>
        /\ step < Len(first_run)
        /\ Snapshot = first_run[step + 1]

\* C2 happens: the second battle has returned, after drawing from rng and
\* logging events, as the first did.
C2_Replayed ==
    /\ rng_traced
    /\ battle = 2
    /\ pc = "returned"
    /\ Len(rng_draws) >= 3
    /\ events # <<>>
    /\ step + 1 = Len(first_run)

\* C3: when run has returned with both sides still having a living actor, the
\* result has no winner and its rounds are max_rounds; and the round counter
\* never exceeds max_rounds.
C3_CapIsADraw ==
    /\ round <= max_rounds
    /\ (pc = "returned" /\ ~OneSideDown) =>
           /\ Unwrap(result).winner = NoneV
           /\ Unwrap(result).rounds = max_rounds

\* C3 happens: a battle of at least one round returned with both sides standing.
C3_ReturnedAtCap ==
    /\ pc = "returned"
    /\ ~OneSideDown
    /\ max_rounds >= 1
    /\ events # <<>>

\* C4 (as stated): a battle where one side has no actors and the other has at
\* least one returns rounds = 0, no events, and the side with actors as winner.
C4_EmptySideLoses ==
    \A s \in Sides :
        (/\ pc = "returned"
         /\ \E i \in DOMAIN actors : actors[i].side = s
         /\ ~\E i \in DOMAIN actors : actors[i].side = opposite(s))
        => /\ Unwrap(result).rounds = 0
           /\ Unwrap(result).events = <<>>
           /\ Unwrap(result).winner = Some(s)

\* C5: every Attack event is logged in a state where the attacker stands at
\* most its weapon's reach from the target: 1 zone for Melee, 2 for Reach,
\* 6 for Ranged.
C5_AttacksWithinReach ==
    [][(\A k \in (Len(events) + 1)..Len(events') :
           events'[k].type = "Attack" =>
               Abs(position(actors'[events'[k].actor_id].zone)
                   - position(actors'[events'[k].target_id].zone))
               <= (CASE actors'[events'[k].actor_id].range = "Melee" -> 1
                     [] actors'[events'[k].actor_id].range = "Reach" -> 2
                     [] actors'[events'[k].actor_id].range = "Ranged" -> 6))]_vars

\* C5 happens: the last event is an attack with a Reach weapon from exactly
\* two zones away.
C5_AttackAtFullReach ==
    /\ events # <<>>
    /\ LET Last(e) ==
               /\ e.type = "Attack"
               /\ actors[e.actor_id].range = "Reach"
               /\ Abs(position(actors[e.actor_id].zone)
                      - position(actors[e.target_id].zone)) = 2
       IN Last(events[Len(events)])

\* C6: the winner of the result is Some(s) exactly when side s has a living
\* actor in the final state and the other side has none; otherwise it is None.
C6_WinnerIsTheSideStanding ==
    pc = "returned" =>
        LET Standing(side) ==
                \E i \in DOMAIN Unwrap(result).final_state :
                    /\ Unwrap(result).final_state[i].side = side
                    /\ Unwrap(result).final_state[i].final_hp > 0
        IN /\ \A s \in Sides :
                Unwrap(result).winner = Some(s)
                    <=> (Standing(s) /\ ~Standing(opposite(s)))
           /\ Unwrap(result).winner \in {NoneV} \cup {Some(s) : s \in Sides}

\* C6 happens: a battle returned a winner after a death.
C6_WonByAKill ==
    /\ pc = "returned"
    /\ Unwrap(result).winner # NoneV
    /\ \E k \in DOMAIN events : events[k].type = "Death"

\* C7: once a side has no living actor, nobody acts: the log gets no further
\* event, the roster does not change and the round counter does not advance.
C7_NothingAfterTheEnd ==
    [][OneSideDown => (events' = events /\ actors' = actors /\ round' = round)]_vars

\* C7 happens: a kill ended the battle inside a round, with the cap not
\* reached and two actors of the winning side still standing.
C7_EndedInsideARound ==
    /\ OneSideDown
    /\ pc = "run"
    /\ round < max_rounds
    /\ events # <<>>
    /\ events[Len(events)].type = "Death"
    /\ Cardinality({i \in DOMAIN actors : actors[i].current_hp > 0}) >= 2

\* C8 (as stated): in the modes Side and Individual a step into a zone needs
\* room only: an actor on the default program, next to the zone of its
\* nearest enemy with room left in it, steps into that zone on its turn.
C8_BasicModesEnterHeldZones ==
    [][((/\ pc = "round"
         /\ initiative_type \in {"Side", "Individual"}
         /\ order # <<>>
         /\ actors[Head(order)].current_hp > 0
         /\ actors[Head(order)].apl = <<>>
         /\ actors[Head(order)].speed >= 1
         /\ \E j \in DOMAIN actors :
               /\ nearest_enemy(actors[Head(order)], actors) = Some(j)
               /\ Abs(position(actors[j].zone) - position(actors[Head(order)].zone)) = 1
               /\ capacity_for(zone_capacity, actors[j].zone) # NoneV
               /\ Cardinality(Occupants(actors, actors[j].zone, Head(order)))
                      < Unwrap(capacity_for(zone_capacity, actors[j].zone)))
        => Head(order) \in Movers)]_vars

\* C8 (amended): in the modes Side and Individual too, a step into a zone
\* needs room and no living enemy of the mover in the zone.
C8_BasicModesKeepOut ==
    [][(initiative_type \in {"Side", "Individual"} => KeepsOutOfHeldZones)]_vars

\* C8 happens: in a basic mode a mover stopped in front of an enemy's zone
\* that had room for it.
C8_BasicModeStopped ==
    initiative_type \in {"Side", "Individual"} /\ StoppedByEnemy

\* C9: in the modes SidePhases and IndividualPhases no step takes an actor
\* into a zone where a living enemy stands, the zones passed on the way of a
\* move of several steps included.
C9_PhasedModesKeepOut ==
    [][(initiative_type \in {"SidePhases", "IndividualPhases"} =>
           \A i \in Movers :
               \A z \in Crossed(actors[i].zone, actors'[i].zone) :
                   \A j \in Occupants(actors, z, i) : actors[j].side = actors[i].side)]_vars

\* C9 happens: in a phased mode a mover stopped in front of an enemy's zone
\* that had room for it.
C9_PhasedModeStopped ==
    initiative_type \in {"SidePhases", "IndividualPhases"} /\ StoppedByEnemy

\* C10: a step into a zone of finite capacity happens only when the living
\* actors in it, the mover not counted, are fewer than the capacity; after a
\* move the zone reached holds at most its capacity; a zone of capacity 0 is
\* never entered; a zone of unlimited capacity always has room.
C10_CapacityIsKept ==
    [][(/\ \A i \in Movers :
             /\ \A z \in Crossed(actors[i].zone, actors'[i].zone) :
                   capacity_for(zone_capacity, z) # NoneV =>
                       /\ Unwrap(capacity_for(zone_capacity, z)) # 0
                       /\ Cardinality(Occupants(actors, z, i))
                              < Unwrap(capacity_for(zone_capacity, z))
             /\ capacity_for(zone_capacity, actors'[i].zone) # NoneV =>
                   Cardinality(Occupants(actors', actors'[i].zone, -1))
                       <= Unwrap(capacity_for(zone_capacity, actors'[i].zone))
        /\ \A z \in ZoneSet, i \in DOMAIN actors :
             capacity_for(zone_capacity, z) = NoneV => zone_has_capacity(actors, z, i))]_vars

\* C10 happens: the last event is a move into a zone of finite capacity that
\* is now full, in a battle that also has a zone of capacity 0.
C10_MovedIntoLastPlace ==
    /\ events # <<>>
    /\ \E z \in ZoneSet : capacity_for(zone_capacity, z) = Some(0)
    /\ LET Last(e) ==
               /\ e.type = "Move"
               /\ actors[e.actor_id].zone = e.to
               /\ capacity_for(zone_capacity, e.to) # NoneV
               /\ Cardinality(Occupants(actors, e.to, -1))
                      = Unwrap(capacity_for(zone_capacity, e.to))
       IN Last(events[Len(events)])

\* The places of the log that this step appends.
Appended == (Len(events) + 1)..Len(events')

\* C11: an attack that is resolved logs exactly one Attack event; its roll
\* is a face 1..20 of the d20 plus the attacker's bonus, its hit flag is
\* roll >= target AC, its damage is 0 on a miss and not negative on a hit;
\* the target's hit points drop by exactly that damage, and nobody's hit
\* points change otherwise.
C11_AttackIsLoggedAsResolved ==
    [][(/\ Cardinality({k \in Appended : events'[k].type = "Attack"}) <= 1
        /\ \A k \in Appended :
              events'[k].type = "Attack" =>
                  /\ events'[k].roll - actors[events'[k].actor_id].attack_bonus \in 1..20
                  /\ events'[k].target_ac = actors[events'[k].target_id].ac
                  /\ events'[k].hit <=> (events'[k].roll >= events'[k].target_ac)
                  /\ events'[k].damage >= 0
                  /\ ~events'[k].hit => events'[k].damage = 0
                  /\ actors'[events'[k].target_id].current_hp
                         = actors[events'[k].target_id].current_hp - events'[k].damage
        /\ \A i \in DOMAIN actors :
              actors'[i].current_hp # actors[i].current_hp =>
                  \E k \in Appended :
                      events'[k].type = "Attack" /\ events'[k].target_id = i)]_vars

\* C11 happens: the log has a miss, a hit whose damage roll was floored to 0,
\* and a hit that took hit points.
C11_MissAndHits ==
    /\ \E k \in DOMAIN events : events[k].type = "Attack" /\ ~events[k].hit
    /\ \E k \in DOMAIN events :
          events[k].type = "Attack" /\ events[k].hit /\ events[k].damage = 0
    /\ \E k \in DOMAIN events :
          events[k].type = "Attack" /\ events[k].hit /\ events[k].damage > 0

\* C12: a hit that leaves the target with 0 hit points or fewer is followed
\* at once in the log by a Death event of the target, of the same round,
\* whose killer_id is the attacker; and a Death event is only ever logged
\* directly after such a hit on an actor that was alive.
C12_DeathFollowsTheKillingHit ==
    [][(\A k \in Appended :
          /\ (/\ events'[k].type = "Attack"
              /\ events'[k].hit
              /\ actors'[events'[k].target_id].current_hp <= 0)
             => /\ k + 1 \in Appended
                /\ events'[k + 1].type = "Death"
                /\ events'[k + 1].actor_id = events'[k].target_id
                /\ events'[k + 1].round = events'[k].round
                /\ events'[k + 1].killer_id = Some(events'[k].actor_id)
          /\ events'[k].type = "Death"
             => /\ k - 1 \in Appended
                /\ events'[k - 1].type = "Attack"
                /\ events'[k - 1].hit
                /\ events'[k - 1].target_id = events'[k].actor_id
                /\ events'[k - 1].round = events'[k].round
                /\ events'[k].killer_id = Some(events'[k - 1].actor_id)
                /\ actors[events'[k].actor_id].current_hp > 0
                /\ actors'[events'[k].actor_id].current_hp <= 0)]_vars

\* C12 happens: the log has a hit that took hit points without killing, and
\* then a Death event.
C12_WoundedThenKilled ==
    \E k \in DOMAIN events, d \in DOMAIN events :
        /\ k < d - 1
        /\ events[k].type = "Attack" /\ events[k].hit /\ events[k].damage > 0
        /\ events[k + 1].type # "Death"
        /\ events[d].type = "Death"
        /\ events[d].actor_id = events[k].target_id

\* C13: the log only grows at its end: what is logged is never changed or
\* removed; the round stamps never decrease along the log; every stamp is at
\* least 1 and at most the round counter, and so at most the rounds of the
\* result, whose events are the log.
C13_LogIsAppendOnly ==
    [][(/\ Len(events') >= Len(events)
        /\ \A k \in DOMAIN events : events'[k] = events[k]
        /\ \A k \in DOMAIN events' :
              /\ 1 <= events'[k].round
              /\ events'[k].round <= round'
              /\ k > 1 => events'[k - 1].round <= events'[k].round
        /\ pc' = "returned" =>
              /\ Unwrap(result').events = events'
              /\ \A k \in DOMAIN events' : events'[k].round <= Unwrap(result').rounds)]_vars

\* C13 happens: a battle of two rounds returned with events of both rounds,
\* moves and attacks among them.
C13_TwoRoundsLogged ==
    /\ pc = "returned"
    /\ Unwrap(result).rounds = 2
    /\ \E k \in DOMAIN events : events[k].round = 1 /\ events[k].type = "Move"
    /\ \E k \in DOMAIN events : events[k].round = 2 /\ events[k].type = "Attack"

\* C14 (as stated): right after CombatSimulator::new every actor has
\* max_hp = current_hp >= 1, whether its template gives a number or dice.
C14_EveryActorStartsAlive ==
    (pc = "run" /\ round = 0) =>
        \A i \in DOMAIN actors :
            actors[i].max_hp = actors[i].current_hp /\ actors[i].current_hp >= 1

\* The template actor i was built from.
TemplateOf(i) == (encounter.side1 \o encounter.side2)[i + 1]

\* The hit points of actor i are given as dice in a text that does not parse.
HpGarbled(i) ==
    /\ TemplateOf(i).hp.kind = "Dice"
    /\ ~parse_damage_dice(Chars(TemplateOf(i).hp.text)).ok

\* The text of the initiative dice does not parse.
InitiativeGarbled == ~parse_damage_dice(Chars(encounter.initiative.dice)).ok

\* C15: dice text that does not parse aborts nothing: with such an initiative
\* text the simulator rolls 1d20+0 for initiative; an actor with such a
\* hit-point text starts with exactly 1 hit point; and the battle does not
\* panic (its damage dice having faces).
C15_GarbledDiceFallBack ==
    /\ InitiativeGarbled => initiative_dice = [count |-> 1, sides |-> 20, modifier |-> 0]
    /\ \A i \in DOMAIN actors :
          HpGarbled(i) =>
              /\ actors[i].max_hp = 1
              /\ (pc = "run" /\ round = 0) => actors[i].current_hp = 1
    /\ (/\ InitiativeGarbled \/ \E i \in DOMAIN actors : HpGarbled(i)
        /\ \A i \in DOMAIN actors : actors[i].damage.sides >= 1)
       => pc # "panicked"

\* C15 happens: in a battle with garbled initiative and hit-point texts an
\* initiative roll of 20 has been made, and an actor has moved.
C15_RolledTheDefault ==
    /\ InitiativeGarbled
    /\ \E i \in DOMAIN actors : HpGarbled(i)
    /\ \E k \in DOMAIN initiatives : initiatives[k].roll = 20
    /\ \E k \in DOMAIN events : events[k].type = "Move"

\* C16: for all zones a, b, c, distance_to is symmetric, is 0 exactly between
\* a zone and itself, and obeys the triangle inequality.
C16_DistanceIsAMetric ==
    IsSome(zone_calls.distances) =>
        /\ Unwrap(zone_calls.distances).ab = Unwrap(zone_calls.distances).ba
        /\ Unwrap(zone_calls.distances).aa = 0
        /\ (Unwrap(zone_calls.distances).ab = 0) <=> (zone_calls.a = zone_calls.b)
        /\ Unwrap(zone_calls.distances).ac
               <= Unwrap(zone_calls.distances).ab + Unwrap(zone_calls.distances).bc

\* C16 happens: three different zones have been measured, the second not
\* between the other two.
C16_MeasuredADetour ==
    /\ IsSome(zone_calls.distances)
    /\ Unwrap(zone_calls.distances).ab > 0
    /\ Unwrap(zone_calls.distances).bc > 0
    /\ Unwrap(zone_calls.distances).ac > 0
    /\ Unwrap(zone_calls.distances).ac
           < Unwrap(zone_calls.distances).ab + Unwrap(zone_calls.distances).bc

\* C17: toward(a, t) is none exactly when a = t; otherwise it is a zone of
\* the track next to a and one step nearer to t.
C17_TowardIsOneStepNearer ==
    IsSome(zone_calls.next) =>
        /\ (Unwrap(zone_calls.next) = NoneV) <=> (zone_calls.a = zone_calls.b)
        /\ IsSome(Unwrap(zone_calls.next)) =>
              /\ Unwrap(Unwrap(zone_calls.next)) \in ZoneSet
              /\ distance_to(zone_calls.a, Unwrap(Unwrap(zone_calls.next))) = 1
              /\ distance_to(Unwrap(Unwrap(zone_calls.next)), zone_calls.b)
                     = distance_to(zone_calls.a, zone_calls.b) - 1

\* C17 happens: a step has been asked for toward a zone three or more away,
\* back along the track.
C17_SteppedBackFromAfar ==
    /\ IsSome(zone_calls.next)
    /\ IsSome(Unwrap(zone_calls.next))
    /\ distance_to(zone_calls.a, zone_calls.b) >= 3
    /\ position(zone_calls.b) < position(zone_calls.a)

\* Actor i may step into zone z as things stand: no living enemy is there,
\* and the zone has room for one more.
Open(i, z) ==
    /\ \A j \in Occupants(actors, z, i) : actors[j].side = actors[i].side
    /\ capacity_for(zone_capacity, z) # NoneV =>
           Cardinality(Occupants(actors, z, i)) < Unwrap(capacity_for(zone_capacity, z))

\* The Move event e of this step is a walk of actor i toward dest that took
\* every step it could: it stays between its start and dest, and ends when
\* the speed is used up, at dest, or before a zone that is not open.
WalkedAsFarAsAllowed(e, i, dest) ==
    /\ e.to \in Crossed(e.from, dest)
    /\ \/ distance_to(e.from, e.to) = actors[i].speed
       \/ e.to = dest
       \/ \E z \in Beyond(e.from, e.to) : ~Open(i, z)

\* C18: a Move event records a walk of consecutive legal steps: it is from
\* the mover's zone to its new zone, between 1 and speed zones long, over
\* zones that were each open to the mover, toward the destination its rule
\* program gave, ending only when the speed is used up, the destination is
\* reached, or the next zone is not open.
C18_MovesStepByStep ==
    [][(\A k \in Appended :
           events'[k].type = "Move" =>
               /\ events'[k].from = actors[events'[k].actor_id].zone
               /\ events'[k].to = actors'[events'[k].actor_id].zone
               /\ 1 <= distance_to(events'[k].from, events'[k].to)
               /\ distance_to(events'[k].from, events'[k].to)
                      <= actors[events'[k].actor_id].speed
               /\ \A z \in Crossed(events'[k].from, events'[k].to) :
                     Open(events'[k].actor_id, z)
               /\ \E r \in TurnActions(actors[events'[k].actor_id], actors) :
                     /\ IsSome(r.actions.move_action)
                     /\ WalkedAsFarAsAllowed(
                            events'[k], events'[k].actor_id,
                            move_target_zone(actors, events'[k].actor_id,
                                             Unwrap(r.actions.move_action))))]_vars

\* C18 happens: the log holds a move of two zones by an actor of speed 2,
\* and a later move of the same actor that ended after one.
C18_FullStrideThenShort ==
    \E k \in DOMAIN events, m \in DOMAIN events :
        /\ k < m
        /\ events[k].type = "Move" /\ events[m].type = "Move"
        /\ events[k].actor_id = events[m].actor_id
        /\ actors[events[k].actor_id].speed = 2
        /\ distance_to(events[k].from, events[k].to) = 2
        /\ distance_to(events[m].from, events[m].to) = 1

\* Whatever move its rule program gives actor i as things stand, the walk
\* ends where it starts: the destination is its own zone, its speed is 0, or
\* the first zone on the way is not open.
StaysPut(i) ==
    \A r \in TurnActions(actors[i], actors) :
        IsSome(r.actions.move_action) =>
            LET Held(dest) ==
                    \/ dest = actors[i].zone
                    \/ actors[i].speed = 0
                    \/ ~Open(i, Unwrap(toward(actors[i].zone, dest)))
            IN Held(move_target_zone(actors, i, Unwrap(r.actions.move_action)))

\* Actor i has a move to make, by its rule program, to somewhere else.
WantsToMove(i) ==
    \E r \in TurnActions(actors[i], actors) :
        /\ IsSome(r.actions.move_action)
        /\ move_target_zone(actors, i, Unwrap(r.actions.move_action)) # actors[i].zone

\* C19: a move that ends where it starts changes nothing: in the turn of an
\* actor whose walk ends in its own zone no Move event is logged and nobody's
\* zone changes, and a step that logs nothing leaves the roster as it was.
\* Every Move event goes from one zone to another, and a step logs one Move
\* event for the actor whose zone it changes, and no other.
C19_NoMoveNoTrace ==
    [][(/\ (pc = "round" /\ order # <<>> /\ StaysPut(Head(order))) =>
               /\ \A k \in Appended : events'[k].type # "Move"
               /\ \A i \in DOMAIN actors : actors'[i].zone = actors[i].zone
        /\ Appended = {} => actors' = actors
        /\ \A k \in Appended :
              events'[k].type = "Move" =>
                  /\ events'[k].from # events'[k].to
                  /\ events'[k].actor_id \in Movers
        /\ Cardinality({k \in Appended : events'[k].type = "Move"}) = Cardinality(Movers)
        /\ Cardinality(Movers) <= 1)]_vars

\* C19 happens: a movement phase is over, in which an actor with somewhere
\* to go and a zone it may not enter in front of it has had its turn, and
\* the log is still empty.
C19_BlockedAtTheFirstStep ==
    /\ pc = "round"
    /\ phase_idx >= 1
    /\ phases[phase_idx] = "Movement"
    /\ events = <<>>
    /\ order = <<>>
    /\ initiative_type = "SidePhases" => side_idx = 2
    /\ \E i \in DOMAIN actors :
          /\ is_alive(actors[i])
          /\ WantsToMove(i)
          /\ StaysPut(i)

\* The place of a weapon range in the order of the attack phases.
PhaseRank(range) ==
    CASE range = "Ranged" -> 1
      [] range = "Reach" -> 2
      [] range = "Melee" -> 3

\* The battle is fought by phases, in the order Movement, Ranged, Reach, Melee.
Phased ==
    /\ initiative_type \in {"SidePhases", "IndividualPhases"}
    /\ phases = <<"Movement", "Ranged", "Reach", "Melee">>

\* C20: fought by phases in the order Movement, Ranged, Reach, Melee, within
\* a round no Attack event comes before a Move event, no actor has two Move
\* events or two Attack events, and the attackers come by weapon range:
\* Ranged, then Reach, then Melee.
C20_PhasesOrderTheRound ==
    Phased =>
        \A k \in DOMAIN events, m \in DOMAIN events :
            (k < m /\ events[k].round = events[m].round) =>
                /\ ~(events[k].type = "Attack" /\ events[m].type = "Move")
                /\ (events[k].type \in {"Move", "Attack"}
                    /\ events[k].type = events[m].type)
                   => events[k].actor_id # events[m].actor_id
                /\ (events[k].type = "Attack" /\ events[m].type = "Attack")
                   => PhaseRank(actors[events[k].actor_id].range)
                          <= PhaseRank(actors[events[m].actor_id].range)

\* C20 happens: fought by phases, one round of the log holds a Move event,
\* then the Attack event of a Ranged-weapon actor, then that of a
\* Melee-weapon actor.
C20_MovedShotStruck ==
    /\ Phased
    /\ \E k \in DOMAIN events, m \in DOMAIN events, n \in DOMAIN events :
          /\ k < m /\ m < n
          /\ events[k].round = events[n].round
          /\ events[k].type = "Move"
          /\ events[m].type = "Attack" /\ actors[events[m].actor_id].range = "Ranged"
          /\ events[n].type = "Attack" /\ actors[events[n].actor_id].range = "Melee"

\* The battle is fought by full turns.
Basic == initiative_type \in {"Side", "Individual"}

\* Event e is a Move or an Attack.
IsAct(e) == e.type \in {"Move", "Attack"}

\* C21: fought by full turns, an actor has at most one turn in a round: of
\* two Move or Attack events of one actor in one round the first is its
\* Move and the second its Attack, and no Move or Attack of another actor
\* lies between them.
C21_OneFullTurnARound ==
    Basic =>
        \A k \in DOMAIN events, m \in DOMAIN events :
            (/\ k < m
             /\ events[k].round = events[m].round
             /\ IsAct(events[k]) /\ IsAct(events[m])
             /\ events[k].actor_id = events[m].actor_id) =>
                /\ events[k].type = "Move"
                /\ events[m].type = "Attack"
                /\ \A n \in (k + 1)..(m - 1) :
                      IsAct(events[n]) => events[n].actor_id = events[k].actor_id

\* C21 happens: fought by full turns, a round of the log holds the Move and
\* then the Attack of one actor, and the Attack of another.
C21_MovedAndStruckInOneTurn ==
    /\ Basic
    /\ \E k \in DOMAIN events, m \in DOMAIN events, n \in DOMAIN events :
          /\ k < m
          /\ events[k].round = events[m].round /\ events[n].round = events[k].round
          /\ events[k].type = "Move" /\ events[m].type = "Attack"
          /\ events[k].actor_id = events[m].actor_id
          /\ events[n].type = "Attack" /\ events[n].actor_id # events[k].actor_id

\* The side of the actor of event e.
SideOf(e) == actors[e.actor_id].side

\* The log evs never goes back, within a round, to a side after the other
\* side has acted.
OneSideThenTheOther(evs) ==
    \A k \in DOMAIN evs, m \in DOMAIN evs, n \in DOMAIN evs :
        (/\ k < m /\ m < n
         /\ evs[k].round = evs[n].round
         /\ IsAct(evs[k]) /\ IsAct(evs[m]) /\ IsAct(evs[n]))
        => ~(SideOf(evs[k]) # SideOf(evs[m]) /\ SideOf(evs[n]) = SideOf(evs[k]))

\* C22: in Side mode one side acts completely before the other. A side's
\* turn starts with an order holding each of its living actors once, the
\* second side's only when the first side's order is used up; each turn is
\* the turn of the head of the order, an actor of the side in turn, and
\* after it the order goes on with the rest unless combat is over (or run
\* panicked); nothing is logged outside a turn; and in the log no side acts
\* again in a round after the other side has acted.
C22_OneSideThenTheOther ==
    [][(initiative_type = "Side" =>
           /\ (side_idx' # side_idx /\ side_idx' # 0) =>
                  /\ Range(order')
                         = {i \in DOMAIN actors : actors'[i].current_hp > 0
                                                  /\ actors'[i].side = sides_order'[side_idx']}
                  /\ Len(order') = Cardinality(Range(order'))
                  /\ sides_order'[1] # sides_order'[2]
                  /\ side_idx' = 1 => pc = "run"
                  /\ side_idx' = 2 => (side_idx = 1 /\ order = <<>>)
           /\ (pc = "round" /\ order # <<>>) =>
                  /\ actors[Head(order)].side = sides_order[side_idx]
                  /\ \A k \in Appended :
                        IsAct(events'[k]) => events'[k].actor_id = Head(order)
                  /\ \/ pc' = "round" /\ order' = Tail(order) /\ side_idx' = side_idx
                     \/ pc' = "run" /\ OneSideDown'
                     \/ pc' = "panicked"
           /\ (pc # "round" \/ order = <<>>) => Appended = {}
           /\ OneSideThenTheOther(events'))]_vars

\* C22 happens: in Side mode a round of the log holds the acts of two actors
\* of the side that went first, then an act of the other side.
C22_BothOfOneSideThenTheOther ==
    /\ initiative_type = "Side"
    /\ \E k \in DOMAIN events, m \in DOMAIN events, n \in DOMAIN events :
          /\ k < m /\ m < n
          /\ events[k].round = events[n].round
          /\ IsAct(events[k]) /\ IsAct(events[m]) /\ IsAct(events[n])
          /\ events[k].actor_id # events[m].actor_id
          /\ SideOf(events[k]) = SideOf(events[m])
          /\ SideOf(events[n]) # SideOf(events[k])

\* The battle is fought in the order of rolled initiative.
ByInitiative == initiative_type \in {"Individual", "IndividualPhases"}

\* The initiative total actor i rolled for this round.
Total(i) == (CHOOSE p \in Range(initiatives) : p.id = i).roll

\* C23: in Individual and IndividualPhases mode a round starts by giving
\* each living actor a total, a roll of the initiative dice plus its
\* modifier; the totals are kept in non-increasing order; the actor in turn
\* has a total no lower than that of any actor still to come in the pass,
\* and only the actor in turn acts.
C23_HigherInitiativeActsFirst ==
    [][(ByInitiative =>
           /\ (pc = "run" /\ pc' = "round") =>
                  /\ {initiatives'[k].id : k \in DOMAIN initiatives'}
                         = {i \in DOMAIN actors : actors[i].current_hp > 0}
                  /\ Len(initiatives') = Cardinality({i \in DOMAIN actors : actors[i].current_hp > 0})
                  /\ order' = [k \in DOMAIN initiatives' |-> initiatives'[k].id]
                  /\ \A k \in DOMAIN initiatives' :
                        initiatives'[k].roll - actors[initiatives'[k].id].initiative_modifier
                            \in (initiative_dice.count + initiative_dice.modifier)
                                ..(initiative_dice.count * initiative_dice.sides
                                   + initiative_dice.modifier)
           /\ pc = "round" =>
                  /\ \A k \in DOMAIN initiatives, m \in DOMAIN initiatives :
                        k < m => initiatives[k].roll >= initiatives[m].roll
                  /\ order # <<>> =>
                        /\ \A j \in Range(Tail(order)) : Total(j) <= Total(Head(order))
                        /\ \A k \in Appended :
                              IsAct(events'[k]) => events'[k].actor_id = Head(order)
                  /\ order = <<>> => Appended = {})]_vars

\* C23 happens: the actor with modifier +1 rolled the highest total and has
\* acted first in the round; the two others tied below it, and the coin put
\* the later of the roster before the earlier.
C23_TieBrokenByTheCoin ==
    /\ ByInitiative
    /\ pc = "round"
    /\ Len(initiatives) = 3
    /\ actors[initiatives[1].id].initiative_modifier = 1
    /\ initiatives[1].roll > initiatives[2].roll
    /\ initiatives[2].roll = initiatives[3].roll
    /\ initiatives[2].id > initiatives[3].id
    /\ events # <<>>
    /\ events[Len(events)].round = round
    /\ events[Len(events)].actor_id = initiatives[1].id

\* Standing in `zone`, with the others where they are, actor i is given an
\* attack by its rule program.
AttacksFrom(i, zone) ==
    LET Given(acts) ==
            \E r \in TurnActions(acts[i], acts) : IsSome(r.actions.attack_action)
    IN Given([actors EXCEPT ![i].zone = zone])

\* C24: in a full turn the attack is decided where the actor stands after
\* its move: the living actor in turn logs an Attack event exactly when its
\* rule program gives it an attack from the zone the turn leaves it in (run
\* not having panicked), and then its target is within its weapon's reach
\* of that zone.
C24_AttackDecidedAfterTheMove ==
    [][((/\ Basic
         /\ pc = "round"
         /\ order # <<>>
         /\ actors[Head(order)].current_hp > 0
         /\ pc' # "panicked") =>
            /\ (\E k \in Appended :
                   events'[k].type = "Attack" /\ events'[k].actor_id = Head(order))
               <=> AttacksFrom(Head(order), actors'[Head(order)].zone)
            /\ \A k \in Appended :
                  events'[k].type = "Attack" =>
                      distance_to(actors'[Head(order)].zone,
                                  actors[events'[k].target_id].zone)
                          <= max_distance(actors[Head(order)].range))]_vars

\* C24 happens: fought by full turns, the log ends with the Move of an actor
\* from a zone out of reach of its target into reach, and its Attack.
C24_MovedIntoReachAndStruck ==
    /\ Basic
    /\ Len(events) >= 2
    /\ LET Struck(mv, at) ==
               /\ mv.type = "Move" /\ at.type = "Attack"
               /\ mv.actor_id = at.actor_id
               /\ mv.round = at.round
               /\ distance_to(mv.from, actors[at.target_id].zone)
                      > max_distance(actors[at.actor_id].range)
               /\ distance_to(mv.to, actors[at.target_id].zone)
                      <= max_distance(actors[at.actor_id].range)
       IN Struck(events[Len(events) - 1], events[Len(events)])

\* The caller has called fn.
Called(fn) == IsSome(apl_calls) /\ Unwrap(apl_calls).fn = fn

\* The living enemies of actor i within reach of its weapon.
InReach(i) ==
    {j \in DOMAIN actors :
        /\ actors[j].side # actors[i].side
        /\ actors[j].current_hp > 0
        /\ distance_to(actors[i].zone, actors[j].zone) <= max_distance(actors[i].range)}

\* Among the actors js, j is as near to actor i as any, and the first of the
\* roster among those as near.
NearestOf(i, js, j) ==
    /\ j \in js
    /\ \A k \in js :
          \/ distance_to(actors[i].zone, actors[j].zone)
                 < distance_to(actors[i].zone, actors[k].zone)
          \/ /\ distance_to(actors[i].zone, actors[j].zone)
                    = distance_to(actors[i].zone, actors[k].zone)
             /\ j <= k

\* C25: an attack entry with target nearest_enemy or nearest, or with a
\* missing or unknown target, picks among the living enemies within reach
\* one nearest to the actor, the first of the roster among the nearest; with
\* no enemy within reach it picks nobody.
C25_AttackPicksTheNearestInReach ==
    (/\ Called("execute_apl")
     /\ actors[Unwrap(apl_calls).actor_id].apl \in AttackNearest \cup {<<>>, WrittenDefault}) =>
        \A r \in Unwrap(apl_calls).returned :
            IF InReach(Unwrap(apl_calls).actor_id) = {}
            THEN r.actions.attack_action = NoneV
            ELSE /\ IsSome(r.actions.attack_action)
                 /\ NearestOf(Unwrap(apl_calls).actor_id,
                              InReach(Unwrap(apl_calls).actor_id),
                              Unwrap(r.actions.attack_action))

\* Entry e of actor i's rule program applies: it has no condition, or its
\* condition holds.
EntryApplies(i, e) ==
    ~IsSome(e.condition) \/ evaluate_condition(Unwrap(e.condition), actors[i], actors)

\* The action kind of entry e is `kind`, in any case of letters.
OfKind(e, kind) == to_lowercase(Chars(e.action)) = Chars(kind)

\* The target word of entry e, in lower case; nearest_enemy when missing.
TargetWord(e) ==
    to_lowercase(Chars(IF IsSome(e.target) THEN Unwrap(e.target) ELSE "nearest_enemy"))

\* The living enemies of actor i.
Foes(i) ==
    {j \in DOMAIN actors : actors[j].side # actors[i].side /\ actors[j].current_hp > 0}

\* The places in actor i's program of the move entries that apply and name
\* somewhere to go, and of the attack entries that apply with an enemy in reach.
MoveEntries(i) ==
    {k \in DOMAIN actors[i].apl :
        /\ OfKind(actors[i].apl[k], "move")
        /\ EntryApplies(i, actors[i].apl[k])
        /\ \/ TargetWord(actors[i].apl[k]) \in {Chars("forward"), Chars("backward")}
           \/ Foes(i) # {}}

AttackEntries(i) ==
    {k \in DOMAIN actors[i].apl :
        /\ OfKind(actors[i].apl[k], "attack")
        /\ EntryApplies(i, actors[i].apl[k])
        /\ InReach(i) # {}}

\* The least of a set of numbers.
Least(ks) == CHOOSE k \in ks : \A m \in ks : k <= m

\* Direction d is the one move entry e gives actor i.
MoveGivenBy(i, e, d) ==
    CASE TargetWord(e) = Chars("forward") -> d.kind = "Forward"
      [] TargetWord(e) = Chars("backward") -> d.kind = "Backward"
      [] OTHER -> d.kind = "Toward" /\ d.target_id \in Foes(i)

\* Target t is one attack entry e can give actor i: an enemy in reach, and
\* for the target weakest one with the fewest hit points of those.
AttackGivenBy(i, e, t) ==
    /\ t \in InReach(i)
    /\ TargetWord(e) \in {Chars("lowest_hp_enemy"), Chars("lowest_hp"), Chars("weakest")}
       => \A j \in InReach(i) : actors[t].current_hp <= actors[j].current_hp

\* C26: execute_apl lets the first applicable entry of each kind win: the
\* move returned is the one given by the first move entry that applies and
\* names somewhere to go, the attack the one given by the first attack entry
\* that applies while an enemy is in reach; with no such entry the action is
\* none. Entries that do not apply, later entries and entries of other
\* kinds change nothing.
C26_FirstApplicableEntryWins ==
    (/\ Called("execute_apl")
     /\ actors[Unwrap(apl_calls).actor_id].apl # <<>>) =>
        LET Decided(i, prog) ==
                \A r \in Unwrap(apl_calls).returned :
                    /\ IF MoveEntries(i) = {}
                       THEN r.actions.move_action = NoneV
                       ELSE /\ IsSome(r.actions.move_action)
                            /\ MoveGivenBy(i, prog[Least(MoveEntries(i))],
                                           Unwrap(r.actions.move_action))
                    /\ IF AttackEntries(i) = {}
                       THEN r.actions.attack_action = NoneV
                       ELSE /\ IsSome(r.actions.attack_action)
                            /\ AttackGivenBy(i, prog[Least(AttackEntries(i))],
                                             Unwrap(r.actions.attack_action))
        IN /\ Unwrap(apl_calls).returned # {}
           /\ Decided(Unwrap(apl_calls).actor_id, actors[Unwrap(apl_calls).actor_id].apl)

\* C26 happens: a program of four entries has returned a move toward an
\* enemy and an attack, its second move entry and its entry of unknown kind
\* having changed nothing.
C26_SecondEntryWon ==
    /\ Called("execute_apl")
    /\ actors[Unwrap(apl_calls).actor_id].apl \in Mixed
    /\ Cardinality(MoveEntries(Unwrap(apl_calls).actor_id)) = 2
    /\ \E r \in Unwrap(apl_calls).returned :
          /\ IsSome(r.actions.move_action)
          /\ Unwrap(r.actions.move_action).kind = "Toward"
          /\ IsSome(r.actions.attack_action)

\* C27: an actor with an empty rule program decides as one whose program is
\* [attack if enemy.in_range, target nearest_enemy; move, target
\* nearest_enemy]: execute_apl returns the same for both, and with a living
\* enemy the move is toward a nearest living enemy (the first of the roster
\* among the nearest) and there is an attack exactly when a living enemy is
\* within reach.
C27_EmptyProgramIsTheDefault ==
    (/\ Called("execute_apl")
     /\ actors[Unwrap(apl_calls).actor_id].apl = <<>>) =>
        LET Decides(i) ==
                /\ Unwrap(apl_calls).returned
                       = TurnActions([actors[i] EXCEPT !.apl = WrittenDefault], actors)
                /\ Unwrap(apl_calls).returned # {}
                /\ Foes(i) # {} =>
                       \A r \in Unwrap(apl_calls).returned :
                           /\ IsSome(r.actions.move_action)
                           /\ Unwrap(r.actions.move_action).kind = "Toward"
                           /\ NearestOf(i, Foes(i), Unwrap(r.actions.move_action).target_id)
                           /\ IsSome(r.actions.attack_action) <=> (InReach(i) # {})
        IN Decides(Unwrap(apl_calls).actor_id)

\* C27 happens: an actor with an empty program and two living enemies, the
\* nearer of them the later of the roster and the only one within reach,
\* has been given a move and an attack.
C27_DefaultMovedAndStruck ==
    /\ Called("execute_apl")
    /\ actors[Unwrap(apl_calls).actor_id].apl = <<>>
    /\ Cardinality(Foes(Unwrap(apl_calls).actor_id)) = 2
    /\ Cardinality(InReach(Unwrap(apl_calls).actor_id)) = 1
    /\ \E r \in Unwrap(apl_calls).returned :
          /\ IsSome(r.actions.attack_action)
          /\ IsSome(r.actions.move_action)
          /\ Unwrap(r.actions.move_action).target_id = 2

\* The condition the caller passed, trimmed and in lower case.
Asked == to_lowercase(trim(Chars(Unwrap(apl_calls).condition)))

\* How many times character ch stands in cs.
Count(cs, ch) == Cardinality({k \in DOMAIN cs : cs[k] = ch})

\* cs is one of the conditions evaluate_condition knows by name.
KnownLiteral(cs) ==
    cs \in Words.true \cup Words.false \cup Words.in_range \cup Words.not_in_range

\* The comparison operator evaluate_condition looks at in cs: "<" if there
\* is one, else ">".
Operator(cs) == IF Count(cs, "<") > 0 THEN "<" ELSE ">"

\* What stands before the first `op` of cs, and after it, trimmed.
LeftOf(cs, op) == trim(SubSeq(cs, 1, find(cs, op) - 1))

RightOf(cs, op) == trim(SubSeq(cs, find(cs, op) + 1, Len(cs)))

\* cs names a number evaluate_numeric knows.
KnownNumber(cs) ==
    cs \in Words.health_percent \cup Words.health \cup Words.enemy_count \cup Words.ally_count

\* The condition asked compares a known number with a right-hand side that
\* is not a number, and the answer is the comparison with 0.
ComparedWithZero(cs, op) ==
    LET Answer(lhs) ==
            IF op = "<" THEN FracLess(lhs, [num |-> 0, den |-> 1])
            ELSE FracLess([num |-> 0, den |-> 1], lhs)
    IN Unwrap(apl_calls).returned
           = Answer(Unwrap(evaluate_numeric(LeftOf(cs, op), actors[0], actors)))

\* C28 (as stated): a condition that is no known literal and has no
\* comparison operator, more than one comparison operator, or an unknown
\* left operand is true; a comparison of a known number with a right-hand
\* side that is not a number is evaluated against 0.
C28_UnknownConditionsAreTrue ==
    (Called("evaluate_condition") /\ ~KnownLiteral(Asked)) =>
        IF \/ Count(Asked, "<") + Count(Asked, ">") # 1
           \/ ~KnownNumber(LeftOf(Asked, Operator(Asked)))
        THEN Unwrap(apl_calls).returned = TRUE
        ELSE ~parse_f64(RightOf(Asked, Operator(Asked))).ok
                 => ComparedWithZero(Asked, Operator(Asked))

\* C28 (amended): a condition that is no known literal is true when it has
\* neither "<" nor ">", when its operator ("<" if it has one, else ">")
\* stands in it more than once, or when what stands before the operator is
\* no known number; otherwise it is a comparison, and a right-hand side that
\* is not a number (another operator in it makes it so) is taken as 0.
C28_ConditionsFailOpenOrCompare ==
    (Called("evaluate_condition") /\ ~KnownLiteral(Asked)) =>
        IF \/ Count(Asked, Operator(Asked)) # 1
           \/ ~KnownNumber(LeftOf(Asked, Operator(Asked)))
        THEN Unwrap(apl_calls).returned = TRUE
        ELSE ~parse_f64(RightOf(Asked, Operator(Asked))).ok
                 => ComparedWithZero(Asked, Operator(Asked))

\* C28 happens: the condition "self.hp < 3 > 1", with two operators and a
\* known number before the first, has been evaluated as self.hp < 0, false.
C28_ComparedWithZero ==
    /\ Called("evaluate_condition")
    /\ Unwrap(apl_calls).condition = "self.hp < 3 > 1"
    /\ KnownNumber(LeftOf(Asked, Operator(Asked)))
    /\ ~parse_f64(RightOf(Asked, Operator(Asked))).ok
    /\ ~Unwrap(apl_calls).returned

\* Actor i as it was set up: everything but its zone and its hit points left.
SetUp(a) ==
    [id |-> a.id, name |-> a.name, side |-> a.side, max_hp |-> a.max_hp, ac |-> a.ac,
     attack_bonus |-> a.attack_bonus, damage |-> a.damage, speed |-> a.speed,
     range |-> a.range, apl |-> a.apl, initiative_modifier |-> a.initiative_modifier]

\* C29: actors change only by combat: a step leaves every actor's id, side,
\* max HP, AC, speed and weapon range (and the rest of its set-up) as they
\* were; a zone changes only for the mover of a Move event of the step, to
\* the zone the event names; hit points change only for the target of an
\* Attack event of the step that hit, and they only go down; and no actor
\* has more hit points than its max HP.
C29_OnlyCombatChangesActors ==
    [][(/\ DOMAIN actors' = DOMAIN actors
        /\ \A i \in DOMAIN actors :
              /\ SetUp(actors'[i]) = SetUp(actors[i])
              /\ actors'[i].zone # actors[i].zone =>
                    \E k \in Appended :
                        /\ events'[k].type = "Move"
                        /\ events'[k].actor_id = i
                        /\ events'[k].to = actors'[i].zone
              /\ actors'[i].current_hp # actors[i].current_hp =>
                    \E k \in Appended :
                        /\ events'[k].type = "Attack"
                        /\ events'[k].target_id = i
                        /\ events'[k].hit
              /\ actors'[i].current_hp <= actors[i].current_hp
              /\ actors[i].current_hp <= actors[i].max_hp
              /\ actors'[i].current_hp <= actors'[i].max_hp
        /\ \A k \in Appended :
              /\ events'[k].type = "Move" =>
                    \A i \in DOMAIN actors :
                        i # events'[k].actor_id => actors'[i].zone = actors[i].zone
              /\ events'[k].type = "Attack" =>
                    \A i \in DOMAIN actors :
                        (i # events'[k].target_id \/ ~events'[k].hit)
                            => actors'[i].current_hp = actors[i].current_hp)]_vars

\* C29 happens: the log holds a Move, a miss and a hit that took hit points,
\* and an actor stands wounded in another zone of its side than it started in.
C29_MovedMissedAndWounded ==
    /\ \E k \in DOMAIN events : events[k].type = "Move"
    /\ \E k \in DOMAIN events : events[k].type = "Attack" /\ ~events[k].hit
    /\ \E k \in DOMAIN events :
          events[k].type = "Attack" /\ events[k].hit /\ events[k].damage > 0
    /\ \E i \in DOMAIN actors :
          /\ 0 < actors[i].current_hp
          /\ actors[i].current_hp < actors[i].max_hp
          /\ actors[i].zone # start_zone_of(actors[i].side, TemplateOf(i).start_zone)

\* The ranged zone of a side.
RangedZoneOf(side) == IF side = "Side1" THEN "Side1Ranged" ELSE "Side2Ranged"

\* The ranged zone of the side actor i fights against.
EnemyRanged(i) == RangedZoneOf(IF actors[i].side = "Side1" THEN "Side2" ELSE "Side1")

\* As things stand the rule program of actor i gives it the move d, whatever
\* its random picks are.
MoveDecided(i, d) ==
    \A r \in TurnActions(actors[i], actors) : r.actions.move_action = Some(d)

\* C30: a forward move heads for the ranged zone of the enemy side and a
\* backward move for the mover's own ranged zone, wherever the enemies stand:
\* the Move event of an actor whose rule program said forward is a walk
\* toward the enemy side's ranged zone that took every step it could and
\* ends nearer to that zone; the Move event of one whose program said
\* backward is such a walk toward its own ranged zone and ends farther from
\* the enemy side's ranged zone.
C30_ForwardAndBackwardAreFixedEnds ==
    [][(\A k \in Appended :
           events'[k].type = "Move" =>
               /\ MoveDecided(events'[k].actor_id, Forward) =>
                      /\ WalkedAsFarAsAllowed(events'[k], events'[k].actor_id,
                                              EnemyRanged(events'[k].actor_id))
                      /\ distance_to(events'[k].to, EnemyRanged(events'[k].actor_id))
                           < distance_to(events'[k].from, EnemyRanged(events'[k].actor_id))
               /\ MoveDecided(events'[k].actor_id, Backward) =>
                      /\ WalkedAsFarAsAllowed(
                             events'[k], events'[k].actor_id,
                             RangedZoneOf(actors[events'[k].actor_id].side))
                      /\ distance_to(events'[k].to, EnemyRanged(events'[k].actor_id))
                           > distance_to(events'[k].from, EnemyRanged(events'[k].actor_id)))]_vars

\* C30 happens: an actor whose program always says forward has walked toward
\* the enemy side, and the last event of the log is the walk of an actor
\* that retreats when wounded, with one hit point left of two, away from
\* the enemy side.
C30_ChargedAndRetreated ==
    /\ \E k \in DOMAIN events :
          /\ events[k].type = "Move"
          /\ TemplateOf(events[k].actor_id).apl = Charge
          /\ distance_to(events[k].to, EnemyRanged(events[k].actor_id))
               < distance_to(events[k].from, EnemyRanged(events[k].actor_id))
    /\ events # <<>>
    /\ LET Fled(e) ==
               /\ e.type = "Move"
               /\ TemplateOf(e.actor_id).apl = Retreat
               /\ actors[e.actor_id].current_hp = 1
               /\ actors[e.actor_id].max_hp = 2
               /\ distance_to(e.to, EnemyRanged(e.actor_id))
                    > distance_to(e.from, EnemyRanged(e.actor_id))
       IN Fled(events[Len(events)])

\* Actor i has not moved: the log holds no Move event of it.
NeverMoved(i) ==
    \A k \in DOMAIN events : ~(events[k].type = "Move" /\ events[k].actor_id = i)

\* C31: in every mode no zone holds living actors of both sides: an actor
\* that has not moved stands in the zone of its own side its template names,
\* and two living actors of opposite sides are always at least one zone
\* apart.
C31_NoZoneHoldsBothSides ==
    /\ \A i \in DOMAIN actors :
          NeverMoved(i) =>
              /\ actors[i].zone = start_zone_of(actors[i].side, TemplateOf(i).start_zone)
              /\ zone_side(actors[i].zone) = actors[i].side
    /\ \A i \in DOMAIN actors, j \in DOMAIN actors :
          (/\ is_alive(actors[i])
           /\ is_alive(actors[j])
           /\ actors[i].side # actors[j].side)
            => distance_to(actors[i].zone, actors[j].zone) >= 1

\* C31 happens: a living actor has walked onto the enemy side's ground and
\* stands one zone away from a living enemy.
C31_StandsOnEnemyGround ==
    \E i \in DOMAIN actors, j \in DOMAIN actors :
        /\ is_alive(actors[i])
        /\ is_alive(actors[j])
        /\ actors[i].side # actors[j].side
        /\ ~NeverMoved(i)
        /\ zone_side(actors[i].zone) = actors[j].side
        /\ distance_to(actors[i].zone, actors[j].zone) = 1

\* The place of actor i in the order rolled for this round (0: not in it).
PlaceOf(i) ==
    IF \E k \in DOMAIN initiatives : initiatives[k].id = i
    THEN CHOOSE k \in DOMAIN initiatives : initiatives[k].id = i
    ELSE 0

\* C32: an actor that is not alive never acts again: the acting actor of
\* every Move or Attack event logged by a step had more than 0 hit points
\* when the step began and has them still; in the log no Move or Attack
\* event of an actor comes after its Death event; and no step changes the
\* zone of an actor at 0 hit points or below.
C32_TheDeadDoNotAct ==
    [][(/\ \A k \in Appended :
              events'[k].type \in {"Move", "Attack"} =>
                  /\ actors[events'[k].actor_id].current_hp > 0
                  /\ actors'[events'[k].actor_id].current_hp > 0
        /\ \A d \in DOMAIN events', k \in DOMAIN events' :
              (/\ events'[d].type = "Death"
               /\ events'[k].type \in {"Move", "Attack"}
               /\ events'[k].actor_id = events'[d].actor_id)
                => k < d
        /\ \A i \in DOMAIN actors :
              actors[i].current_hp <= 0 => actors'[i].zone = actors[i].zone)]_vars

\* C32 happens: in a round of individual initiative an actor was killed by
\* one that came before it in the order rolled for the round, the battle
\* went on, and the loop has passed the place of the one killed.
C32_KilledBeforeItsTurn ==
    /\ pc = "round"
    /\ initiative_type = "Individual"
    /\ \E d \in DOMAIN events :
          /\ events[d].type = "Death"
          /\ events[d].round = round
          /\ IsSome(events[d].killer_id)
          /\ PlaceOf(events[d].actor_id) > PlaceOf(Unwrap(events[d].killer_id))
          /\ PlaceOf(Unwrap(events[d].killer_id)) > 0
          /\ Len(order) <= Len(initiatives) - PlaceOf(events[d].actor_id)

\* C33: the target of every Attack event is, when the attack is made, a
\* living actor of the side opposite to the attacker's: not the attacker
\* itself, not an ally, and not an actor at 0 hit points or below.
C33_TargetsAreLivingEnemies ==
    [][(\A k \in Appended :
           events'[k].type = "Attack" =>
               /\ events'[k].target_id \in DOMAIN actors
               /\ events'[k].target_id # events'[k].actor_id
               /\ actors[events'[k].target_id].side # actors[events'[k].actor_id].side
               /\ actors[events'[k].target_id].current_hp > 0)]_vars

\* C33 happens: after one of two allies fell, their enemy attacked the other
\* one, with the fallen one still within its reach and before the other in
\* the roster.
C33_StruckTheOneStillStanding ==
    \E d \in DOMAIN events, k \in DOMAIN events :
        /\ d < k
        /\ events[d].type = "Death"
        /\ events[k].type = "Attack"
        /\ events[k].target_id # events[d].actor_id
        /\ events[d].actor_id < events[k].target_id
        /\ actors[events[d].actor_id].side = actors[events[k].target_id].side
        /\ actors[events[d].actor_id].current_hp <= 0
        /\ can_attack(actors[events[k].actor_id], actors[events[d].actor_id])

\* The places in the log evs of the Death events of actor i.
DeathsOf(evs, i) ==
    {k \in DOMAIN evs : evs[k].type = "Death" /\ evs[k].actor_id = i}

\* C34: the log holds at most one Death event per actor, at every moment of
\* the battle; an actor set up alive is at 0 hit points or below exactly
\* when the log holds a Death event of it; and in the CombatResult returned
\* the final snapshot of such an actor says not alive, with final HP <= 0,
\* exactly when the result's log holds a Death event of it.
C34_OneDeathForEachOfTheDead ==
    /\ \A i \in DOMAIN actors :
          /\ Cardinality(DeathsOf(events, i)) <= 1
          /\ actors[i].max_hp > 0 =>
                 (actors[i].current_hp <= 0 <=> DeathsOf(events, i) # {})
    /\ IsSome(result) =>
          \A i \in DOMAIN Unwrap(result).final_state :
              /\ Cardinality(DeathsOf(Unwrap(result).events, i)) <= 1
              /\ Unwrap(result).final_state[i].alive
                     <=> (Unwrap(result).final_state[i].final_hp > 0)
              /\ Unwrap(result).final_state[i].max_hp > 0 =>
                     (~Unwrap(result).final_state[i].alive
                         <=> DeathsOf(Unwrap(result).events, i) # {})

\* C34 happens: a battle has returned with one actor dead, by the one Death
\* event of the log, and with another that was hit and lost hit points but
\* lives, with no Death event.
C34_OneFellOneWounded ==
    /\ pc = "returned"
    /\ IsSome(result)
    /\ \E i \in DOMAIN actors, j \in DOMAIN actors :
          /\ ~Unwrap(result).final_state[i].alive
          /\ Unwrap(result).final_state[i].max_hp > 0
          /\ Cardinality(DeathsOf(Unwrap(result).events, i)) = 1
          /\ Unwrap(result).final_state[j].alive
          /\ Unwrap(result).final_state[j].final_hp < Unwrap(result).final_state[j].max_hp
          /\ DeathsOf(Unwrap(result).events, j) = {}

====
